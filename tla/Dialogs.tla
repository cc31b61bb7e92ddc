-------------------------------- MODULE Dialogs --------------------------------
(***************************************************************************)
(* The dialogs of the main window, ui/dialogs.rs, and the questions that   *)
(* are asked with them: the hotkey of a sound (ui/sound_list/interaction), *)
(* of a tab and of a control, names, removals, and the installation of     *)
(* swhkd.                                                                  *)
(*                                                                         *)
(* There is one set of widgets.  A dialog that opens takes it over from    *)
(* the one that shows, and answers that come from worker threads - a hotkey *)
(* that is read, a clash that is found, a command that failed, an          *)
(* installer that ended - open dialogs whenever they come, whatever shows. *)
(***************************************************************************)
EXTENDS Naturals, FiniteSets, FiniteSetsExt, TLC

CONSTANTS
  DgSounds,    \* sounds whose hotkey is set
  DgOthers,    \* a tab, a control, a name, a removal
  DgKeys,      \* canonical hotkeys
  DgNone,
  DgMaxEvents  \* bound: what the user opens, failures and installers

ASSUME DialogAssumption ==
  DgMaxEvents \in Nat /\ DgNone \notin DgKeys \cup DgSounds \cup DgOthers

VARIABLES
  dgHost,     \* the widgets and cells of DialogHostInner
  dgSharing,  \* multi_sound_hotkeys
  dgReads,    \* hotkeys being read, to open a capture with
  dgChecks,   \* hotkey_holder requests: who, and which key
  dgCommands, \* commands on their way that may fail
  dgInstalls, \* installers that run
  dgSaved,    \* history: what was saved in a capture of its own
  dgAgreed,   \* history: what was confirmed in a dialog of its own
  dgDone,     \* history: the hotkeys that were dispatched, and those that clashed
  dgEvents

dgWork == <<dgReads, dgChecks, dgCommands, dgInstalls>>
dgHistory == <<dgSaved, dgAgreed, dgDone>>
dgVars == <<dgHost, dgSharing, dgWork, dgHistory, dgEvents>>

Subjects == DgSounds \cup DgOthers \cup {DgNone}
DgHappens == dgEvents < DgMaxEvents /\ dgEvents' = dgEvents + 1

\* The responses of each kind of dialog's buttons, as configure_actions is
\* called. Those that only show another message are of kind "path".
Buttons(kind) ==
  CASE kind = "none" -> {}
    [] kind = "message" -> {"ok"}
    [] kind = "path" -> {"close", "copy"}
    [] kind \in {"confirm", "share", "input"} -> {"cancel", "confirm"}
    [] kind = "capture" -> {"cancel", "clear", "save"}
    [] kind = "error" -> {"close", "install"}
    [] kind = "uinput" -> {"cancel", "skip", "uinput"}
    [] kind = "install" -> {"cancel", "install"}

Kinds == {"none", "message", "path", "confirm", "share", "input", "capture", "error", "uinput", "install"}

\* Nothing shows: no handler, no validator, no buttons.
Hidden ==
  [visible |-> FALSE, kind |-> "none", about |-> DgNone, key |-> DgNone,
   buttons |-> "none", handler |-> "none", validates |-> FALSE, captured |-> DgNone]

DgInit ==
  /\ dgHost = Hidden
  /\ dgSharing \in BOOLEAN
  /\ dgReads = {} /\ dgChecks = {} /\ dgCommands = 0 /\ dgInstalls = 0
  /\ dgSaved = {} /\ dgAgreed = {} /\ dgDone = {}
  /\ dgEvents = 0

-----------------------------------------------------------------------------
(* DialogHost. *)

\* Fault: the cells of the dialog before are kept.
PreparedLabels(kind, about, key) ==
  [dgHost EXCEPT !.visible = TRUE, !.kind = kind, !.about = about, !.key = key,
                 !.buttons = kind, !.handler = IF kind = "message" THEN @ ELSE kind]

\* prepare, configure_actions, set_response_handler and present: everything the
\* dialog before had is cleared. A message has no handler; a capture starts
\* with the current hotkey, and recording with it.
Prepared(kind, about, key) ==
  [visible |-> TRUE, kind |-> kind, about |-> about, key |-> key,
   buttons |-> kind, handler |-> IF kind = "message" THEN "none" ELSE kind,
   validates |-> kind = "capture",
   captured |-> IF kind = "capture" THEN key ELSE DgNone]

Message == Prepared("message", DgNone, DgNone)

\* dismiss: the close button, a press outside, Escape. No handler runs. What
\* was captured stays in its cell.
Dismissed(host) == [Hidden EXCEPT !.captured = host.captured]

\* Fault: the widgets are reset although the handler has opened a dialog.
ResetAlways(host) == [host EXCEPT !.buttons = "none"]

\* The end of handle_response: the widgets of a dialog that the handler opened
\* are left alone.
ResetUnlessVisible(host) == IF host.visible THEN host ELSE Dismissed(host)

\* handle_response with a handler that opens this dialog, or none.
AfterAnswer(opened) == dgHost' = ResetUnlessVisible(opened)

CanAnswer(kind, response) ==
  /\ dgHost.visible /\ dgHost.handler = kind
  /\ response \in Buttons(dgHost.buttons)

DismissDialog ==
  /\ dgHost.visible
  /\ dgHost' = Dismissed(dgHost)
  /\ UNCHANGED <<dgSharing, dgWork, dgHistory, dgEvents>>

\* A response that its handler does nothing for, or the message has none.
AnswerNothing ==
  /\ \E r \in Buttons(dgHost.buttons) :
       \/ dgHost.visible /\ dgHost.handler = "none"
       \/ CanAnswer(dgHost.handler, r) /\ r \in {"ok", "close", "cancel"}
  /\ AfterAnswer(Dismissed(dgHost))
  /\ UNCHANGED <<dgSharing, dgWork, dgHistory, dgEvents>>

-----------------------------------------------------------------------------
(* What the user opens. *)

\* A name, a removal, a deletion, a path.
OpenPlain ==
  /\ DgHappens
  /\ \E kind \in {"input", "confirm", "path"}, about \in DgOthers :
       dgHost' = Prepared(kind, about, DgNone)
  /\ UNCHANGED <<dgSharing, dgWork, dgHistory>>

\* The hotkey of a control is at hand, and that of a sound when tab hotkeys are
\* off; otherwise, and for a tab, it is read first.
OpenCapture ==
  /\ DgHappens
  /\ \E s \in DgSounds \cup DgOthers :
       \/ \E k \in DgKeys \cup {DgNone} : dgHost' = Prepared("capture", s, k) /\ UNCHANGED dgReads
       \/ dgReads' = dgReads \cup {s} /\ UNCHANGED dgHost
  /\ UNCHANGED <<dgSharing, dgChecks, dgCommands, dgInstalls, dgHistory>>

HotkeyRead ==
  /\ \E s \in dgReads, k \in DgKeys \cup {DgNone} :
       dgHost' = Prepared("capture", s, k) /\ dgReads' = dgReads \ {s}
  /\ UNCHANGED <<dgSharing, dgChecks, dgCommands, dgInstalls, dgHistory, dgEvents>>

\* handle_hotkey_key_pressed: a key the capture can use. Keys it cannot change
\* a label; AltGr is not recorded.
KeyPressed ==
  /\ dgHost.visible /\ dgHost.kind = "capture" /\ dgHost.validates
  /\ \E k \in DgKeys : dgHost' = [dgHost EXCEPT !.captured = k]
  /\ UNCHANGED <<dgSharing, dgWork, dgHistory, dgEvents>>

-----------------------------------------------------------------------------
(* Answers. *)

\* HotkeyAssignment::dispatch, set_control_hotkey_async, set_tab_hotkey_async.
DispatchHotkey(about, key, clashed) ==
  /\ dgCommands' = dgCommands + 1
  /\ dgDone' = dgDone \cup {[about |-> about, key |-> key, clashed |-> clashed]}

\* Save or Clear. A sound's new hotkey is first looked for among the others
\* when sounds may share one, unless that request finds no room.
AnswerCapture ==
  /\ \E r \in {"save", "clear"} :
       LET about == dgHost.about
           key == IF r = "save" THEN dgHost.captured ELSE DgNone
       IN  /\ CanAnswer("capture", r)
           /\ dgSaved' = dgSaved \cup {[about |-> about, key |-> key]}
           /\ IF about \in DgSounds /\ dgSharing /\ key # DgNone
              THEN /\ dgChecks' \in {dgChecks, dgChecks \cup {[about |-> about, key |-> key]}}
                   /\ UNCHANGED <<dgCommands, dgDone>>
              ELSE DispatchHotkey(about, key, FALSE) /\ UNCHANGED dgChecks
  /\ AfterAnswer(Dismissed(dgHost))
  /\ UNCHANGED <<dgSharing, dgReads, dgInstalls, dgAgreed, dgEvents>>

\* Fault: what the dialog has captured by the time the answer comes.
KeyCapturedNow(check) == dgHost.captured
KeyAsked(check) == check.key

\* hotkey_holder_async: nobody has it, or looking failed; or the user is asked
\* whether to share it.
HolderFound ==
  /\ \E c \in dgChecks :
       /\ dgChecks' = dgChecks \ {c}
       /\ \/ DispatchHotkey(c.about, KeyAsked(c), FALSE) /\ UNCHANGED dgHost
          \/ dgHost' = Prepared("share", c.about, KeyAsked(c)) /\ UNCHANGED <<dgCommands, dgDone>>
  /\ UNCHANGED <<dgSharing, dgReads, dgInstalls, dgSaved, dgAgreed, dgEvents>>

AnswerShare ==
  /\ CanAnswer("share", "confirm")
  /\ dgAgreed' = dgAgreed \cup {[about |-> dgHost.about, key |-> dgHost.key]}
  /\ DispatchHotkey(dgHost.about, dgHost.key, TRUE)
  /\ AfterAnswer(Dismissed(dgHost))
  /\ UNCHANGED <<dgSharing, dgReads, dgChecks, dgInstalls, dgSaved, dgEvents>>

\* A name or a removal is confirmed: a command starts.
AnswerPlain ==
  /\ \E kind \in {"input", "confirm"} : CanAnswer(kind, "confirm")
  /\ dgCommands' = dgCommands + 1
  /\ AfterAnswer(Dismissed(dgHost))
  /\ UNCHANGED <<dgSharing, dgReads, dgChecks, dgInstalls, dgHistory, dgEvents>>

\* Copying shows a message.
AnswerPath ==
  /\ CanAnswer("path", "copy")
  /\ AfterAnswer(Message)
  /\ UNCHANGED <<dgSharing, dgWork, dgHistory, dgEvents>>

\* A command ends, and may report an error, with an offer to install swhkd.
CommandEnds ==
  /\ dgCommands > 0 /\ dgCommands' = dgCommands - 1
  /\ \/ UNCHANGED <<dgHost, dgEvents>>
     \/ DgHappens /\ dgHost' \in {Message, Prepared("error", DgNone, DgNone)}
  /\ UNCHANGED <<dgSharing, dgReads, dgChecks, dgInstalls, dgHistory>>

-----------------------------------------------------------------------------
(* The installation of swhkd. *)

\* prompt_swhkd_install: the kernel module is asked about when it is missing.
AnswerError ==
  /\ CanAnswer("error", "install")
  /\ \E kind \in {"uinput", "install"} : AfterAnswer(Prepared(kind, DgNone, DgNone))
  /\ UNCHANGED <<dgSharing, dgWork, dgHistory, dgEvents>>

AnswerUinput ==
  /\ \E r \in {"skip", "uinput"} : CanAnswer("uinput", r)
  /\ AfterAnswer(Prepared("install", DgNone, DgNone))
  /\ UNCHANGED <<dgSharing, dgWork, dgHistory, dgEvents>>

\* The installer starts, or cannot; a message says which.
AnswerInstall ==
  /\ CanAnswer("install", "install")
  /\ \/ dgInstalls' = dgInstalls + 1
     \/ UNCHANGED dgInstalls
  /\ AfterAnswer(Message)
  /\ UNCHANGED <<dgSharing, dgReads, dgChecks, dgCommands, dgHistory, dgEvents>>

\* It ends: a message, or what to do by hand.
InstallEnds ==
  /\ dgInstalls > 0 /\ dgInstalls' = dgInstalls - 1
  /\ dgHost' \in {Message, Prepared("path", DgNone, DgNone)}
  /\ UNCHANGED <<dgSharing, dgReads, dgChecks, dgCommands, dgHistory, dgEvents>>

DgNext ==
  \/ DismissDialog \/ AnswerNothing \/ OpenPlain \/ OpenCapture \/ HotkeyRead \/ KeyPressed
  \/ AnswerCapture \/ HolderFound \/ AnswerShare \/ AnswerPlain \/ AnswerPath \/ CommandEnds
  \/ AnswerError \/ AnswerUinput \/ AnswerInstall \/ InstallEnds

DgSpec == DgInit /\ [][DgNext]_dgVars

-----------------------------------------------------------------------------
(* Properties. *)

DialogTypeOK ==
  /\ dgHost.kind \in Kinds /\ dgHost.buttons \in Kinds /\ dgHost.handler \in Kinds
  /\ dgHost.about \in Subjects
  /\ {dgHost.key, dgHost.captured} \subseteq DgKeys \cup {DgNone}
  /\ dgReads \subseteq Subjects
  /\ dgCommands \in Nat /\ dgInstalls \in Nat

\* Whatever opened over what: the buttons and the handler are those of the
\* dialog that shows, and hotkeys are ignored for a capture that shows and
\* never after it.
DialogIsItsOwn ==
  /\ dgHost.visible => dgHost.buttons = dgHost.kind
  /\ dgHost.handler # "none" => dgHost.visible /\ dgHost.handler = dgHost.kind
  /\ dgHost.validates <=> dgHost.visible /\ dgHost.kind = "capture"

\* So a hotkey is only set that the user saved in a dialog about its owner, and,
\* when another sound was found to have it, agreed to share in one about them.
HotkeysAreAgreedTo ==
  /\ DialogIsItsOwn
  /\ \A d \in dgDone :
       LET it == [about |-> d.about, key |-> d.key]
       IN  it \in dgSaved /\ (d.clashed => it \in dgAgreed)
===============================================================================
