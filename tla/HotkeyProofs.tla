----------------------------- MODULE HotkeyProofs -----------------------------
(***************************************************************************)
(* Hotkeys: what is agreed to in a dialog, written to the table, put       *)
(* through to the backend, and pressed.                                    *)
(*                                                                         *)
(* Each part has the invariant of one module, for any constants, and the   *)
(* theorems it gives.                                                      *)
(***************************************************************************)
EXTENDS HotkeyBindings, HotkeyDaemon, HotkeyPress, Dialogs, FiniteSetTheorems, SequenceTheorems,
        WellFoundedInduction, TLAPS

-----------------------------------------------------------------------------
(***************************************************************************)
(* Dialogs.                                                                *)
(*                                                                         *)
(* What is set is what was agreed to, for any subjects and keys, and any   *)
(* number of dialogs, requests, commands and installers that overlap.      *)
(***************************************************************************)

(***************************************************************************)
(* The invariant.                                                          *)
(***************************************************************************)

DialogHosts ==
  [visible : BOOLEAN, kind : Kinds, about : Subjects, key : DgKeys \cup {DgNone},
   buttons : Kinds, handler : Kinds, validates : BOOLEAN, captured : DgKeys \cup {DgNone}]
Assignments == [about : Subjects, key : DgKeys \cup {DgNone}]

\* The widgets and cells have one owner.
HostIsItsOwn(host) ==
  /\ host \in DialogHosts
  /\ host.visible => host.buttons = host.kind
  /\ host.handler # "none" => host.visible /\ host.handler = host.kind
  /\ host.validates <=> host.visible /\ host.kind = "capture"

\* A question to share a hotkey is about one that was saved.
SharesSaved(host, saved) ==
  host.kind = "share" => [about |-> host.about, key |-> host.key] \in saved

AgreedSave(d, saved, agreed) ==
  LET it == [about |-> d.about, key |-> d.key]
  IN it \in saved /\ (d.clashed => it \in agreed)

\* And so is a request that looks for another holder of one.
DialogInv ==
  /\ HostIsItsOwn(dgHost) /\ SharesSaved(dgHost, dgSaved)
  /\ dgReads \subseteq Subjects
  /\ dgChecks \subseteq Assignments /\ dgChecks \subseteq dgSaved
  /\ \A d \in dgDone : AgreedSave(d, dgSaved, dgAgreed)

(***************************************************************************)
(* The host.                                                               *)
(***************************************************************************)

\* Whatever a dialog finds, it leaves its own.
LEMMA PreparedIsItsOwn ==
  ASSUME NEW kind \in Kinds \ {"none"}, NEW about \in Subjects, NEW key \in DgKeys \cup {DgNone}
  PROVE  /\ HostIsItsOwn(Prepared(kind, about, key))
         /\ Prepared(kind, about, key).kind = kind
         /\ Prepared(kind, about, key).about = about
         /\ Prepared(kind, about, key).key = key
         /\ Prepared(kind, about, key).visible
BY DEF Prepared, HostIsItsOwn, DialogHosts, Kinds

\* A dialog that is dismissed leaves nothing but what was captured.
LEMMA DismissedIsItsOwn ==
  ASSUME NEW host \in DialogHosts
  PROVE  /\ HostIsItsOwn(Dismissed(host)) /\ Dismissed(host).kind = "none"
         /\ ~Dismissed(host).visible /\ Dismissed(host) \in DialogHosts
BY DEF Dismissed, Hidden, HostIsItsOwn, DialogHosts, Kinds, Subjects

\* After an answer nothing shows, or what the handler has opened.
LEMMA AnsweredIsItsOwn ==
  ASSUME NEW opened, HostIsItsOwn(opened), AfterAnswer(opened)
  PROVE  HostIsItsOwn(dgHost') /\ dgHost'.kind \in {opened.kind, "none"}
<1>1. CASE opened.visible
  BY <1>1 DEF AfterAnswer, ResetUnlessVisible
<1>2. CASE ~opened.visible
  BY <1>2, DismissedIsItsOwn DEF AfterAnswer, ResetUnlessVisible, HostIsItsOwn
<1> QED BY <1>1, <1>2

\* The handler that runs is the one of the dialog that shows.
LEMMA AnswerIsOfTheShown ==
  ASSUME DialogInv, NEW kind, kind # "none", NEW response, CanAnswer(kind, response)
  PROVE  dgHost.kind = kind /\ dgHost \in DialogHosts
BY DEF DialogInv, HostIsItsOwn, CanAnswer

(***************************************************************************)
(* What was dispatched.                                                    *)
(***************************************************************************)

\* What was saved and agreed to stays so.
LEMMA DoneStaysDone ==
  ASSUME NEW d, NEW saved, NEW agreed, NEW saved1, NEW agreed1,
         saved \subseteq saved1, agreed \subseteq agreed1, AgreedSave(d, saved, agreed)
  PROVE  AgreedSave(d, saved1, agreed1)
BY Zenon DEF AgreedSave

\* A hotkey nobody else had only needs to be saved.
LEMMA FreeIsDispatched ==
  ASSUME NEW about, NEW key, NEW saved, NEW agreed, [about |-> about, key |-> key] \in saved
  PROVE  AgreedSave([about |-> about, key |-> key, clashed |-> FALSE], saved, agreed)
BY DEF AgreedSave

LEMMA AgreedIsDispatched ==
  ASSUME NEW about, NEW key, NEW saved, NEW agreed,
         [about |-> about, key |-> key] \in saved, [about |-> about, key |-> key] \in agreed
  PROVE  AgreedSave([about |-> about, key |-> key, clashed |-> TRUE], saved, agreed)
BY DEF AgreedSave

(***************************************************************************)
(* The steps.                                                              *)
(***************************************************************************)

\* Those that dispatch nothing, keep the requests or drop some, and show no
\* question to share.
LEMMA OtherDialogs ==
  ASSUME DialogInv, UNCHANGED dgHistory, dgChecks' \subseteq dgChecks, dgReads' \subseteq Subjects,
         HostIsItsOwn(dgHost'), dgHost'.kind # "share" \/ UNCHANGED dgHost
  PROVE  DialogInv'
<1>1. SharesSaved(dgHost', dgSaved')
  BY DEF DialogInv, SharesSaved, dgHistory
<1> QED BY <1>1 DEF DialogInv, AgreedSave, dgHistory

LEMMA QuietDialogs ==
  ASSUME DialogInv,
         \/ DismissDialog \/ AnswerNothing \/ OpenPlain \/ OpenCapture \/ HotkeyRead \/ KeyPressed
         \/ AnswerPlain \/ AnswerPath \/ CommandEnds \/ AnswerError \/ AnswerUinput \/ AnswerInstall
         \/ InstallEnds
  PROVE  DialogInv'
<1>1. HostIsItsOwn(dgHost) /\ dgHost \in DialogHosts
  BY DEF DialogInv, HostIsItsOwn
<1>2. /\ UNCHANGED dgHistory /\ dgChecks' \subseteq dgChecks
      /\ dgReads' \subseteq Subjects
  BY DEF DialogInv, Subjects, dgWork, DismissDialog, AnswerNothing, OpenPlain, OpenCapture, HotkeyRead,
         KeyPressed, AnswerPlain, AnswerPath, CommandEnds, AnswerError, AnswerUinput, AnswerInstall, InstallEnds
<1>3. DgNone \in Subjects /\ DgOthers \subseteq Subjects /\ DgSounds \subseteq Subjects
  BY DEF Subjects
<1> DEFINE Fine == HostIsItsOwn(dgHost') /\ (dgHost'.kind # "share" \/ UNCHANGED dgHost)
<1>4. \A kind \in {"message", "path", "confirm", "input", "capture", "error", "uinput", "install"},
         about \in Subjects, key \in DgKeys \cup {DgNone} :
        /\ HostIsItsOwn(Prepared(kind, about, key)) /\ Prepared(kind, about, key).kind # "share"
  BY PreparedIsItsOwn DEF Kinds
<1>5. HostIsItsOwn(Message) /\ Message.kind # "share"
  BY <1>3, <1>4 DEF Message
<1>6. ASSUME DismissDialog PROVE Fine
  BY <1>1, <1>6, DismissedIsItsOwn DEF DismissDialog
<1>7. ASSUME AnswerNothing \/ AnswerPlain PROVE Fine
  BY <1>1, <1>7, DismissedIsItsOwn, AnsweredIsItsOwn DEF AnswerNothing, AnswerPlain
<1>8. ASSUME OpenPlain \/ OpenCapture \/ HotkeyRead PROVE Fine
  <2>1. \/ \E kind \in {"input", "confirm", "path"}, about \in DgOthers : dgHost' = Prepared(kind, about, DgNone)
        \/ \E s \in Subjects, k \in DgKeys \cup {DgNone} : dgHost' = Prepared("capture", s, k)
        \/ UNCHANGED dgHost
    BY <1>3, <1>8 DEF OpenPlain, OpenCapture, HotkeyRead, DialogInv
  <2> QED BY <1>1, <1>3, <1>4, <2>1
<1>9. ASSUME KeyPressed PROVE Fine
  BY <1>1, <1>9 DEF KeyPressed, HostIsItsOwn, DialogHosts
<1>10. ASSUME AnswerPath \/ AnswerInstall PROVE Fine
  BY <1>5, <1>10, AnsweredIsItsOwn DEF AnswerPath, AnswerInstall
<1>11. ASSUME CommandEnds \/ InstallEnds PROVE Fine
  <2>1. dgHost' \in {Message, Prepared("error", DgNone, DgNone), Prepared("path", DgNone, DgNone)} \/ UNCHANGED dgHost
    BY <1>11 DEF CommandEnds, InstallEnds
  <2> QED BY <1>1, <1>3, <1>4, <1>5, <2>1
<1>12. ASSUME AnswerError \/ AnswerUinput PROVE Fine
  <2>1. PICK kind \in {"uinput", "install"} : AfterAnswer(Prepared(kind, DgNone, DgNone))
    BY <1>12 DEF AnswerError, AnswerUinput
  <2>2. HostIsItsOwn(Prepared(kind, DgNone, DgNone)) /\ Prepared(kind, DgNone, DgNone).kind # "share"
    BY <1>3, <1>4
  <2> QED BY <2>1, <2>2, AnsweredIsItsOwn
<1>13. Fine
  BY <1>6, <1>7, <1>8, <1>9, <1>10, <1>11, <1>12
<1> QED BY <1>2, <1>13, OtherDialogs

LEMMA CaptureAnswered ==
  ASSUME DialogInv, AnswerCapture
  PROVE  DialogInv'
<1>1. PICK r \in {"save", "clear"} :
        LET about == dgHost.about
            key == IF r = "save" THEN dgHost.captured ELSE DgNone
        IN  /\ CanAnswer("capture", r)
            /\ dgSaved' = dgSaved \cup {[about |-> about, key |-> key]}
            /\ \/ /\ dgChecks' \in {dgChecks, dgChecks \cup {[about |-> about, key |-> key]}}
                  /\ UNCHANGED dgDone
               \/ /\ dgDone' = dgDone \cup {[about |-> about, key |-> key, clashed |-> FALSE]}
                  /\ UNCHANGED dgChecks
  BY DEF AnswerCapture, DispatchHotkey
<1> DEFINE key == IF r = "save" THEN dgHost.captured ELSE DgNone
           it == [about |-> dgHost.about, key |-> key]
<1>2. it \in Assignments
  BY <1>1, AnswerIsOfTheShown DEF DialogHosts, Assignments
<1>3. HostIsItsOwn(dgHost') /\ dgHost'.kind = "none" /\ UNCHANGED <<dgReads, dgAgreed>>
  BY DismissedIsItsOwn, AnsweredIsItsOwn DEF AnswerCapture, DialogInv, HostIsItsOwn
<1>4. dgSaved' = dgSaved \cup {it}
  BY <1>1
<1>5. dgChecks' \subseteq Assignments /\ dgChecks' \subseteq dgSaved'
  BY <1>1, <1>2, <1>4 DEF DialogInv
<1>6. \A d \in dgDone' : AgreedSave(d, dgSaved', dgAgreed')
  <2>1. dgDone' \subseteq dgDone \cup {[about |-> dgHost.about, key |-> key, clashed |-> FALSE]}
    BY <1>1
  <2>2. [about |-> dgHost.about, key |-> key] \in dgSaved'
    BY <1>4
  <2>3. AgreedSave([about |-> dgHost.about, key |-> key, clashed |-> FALSE], dgSaved', dgAgreed')
    BY <2>2, FreeIsDispatched
  <2> HIDE DEF key
  <2>4. ASSUME NEW d \in dgDone PROVE AgreedSave(d, dgSaved', dgAgreed')
    BY <1>3, <1>4, DoneStaysDone DEF DialogInv
  <2> QED BY <2>1, <2>3, <2>4
<1> QED BY <1>3, <1>5, <1>6 DEF DialogInv, SharesSaved

LEMMA HolderAnswered ==
  ASSUME DialogInv, HolderFound
  PROVE  DialogInv'
<1>1. PICK c \in dgChecks :
        /\ dgChecks' = dgChecks \ {c}
        /\ \/ dgDone' = dgDone \cup {[about |-> c.about, key |-> c.key, clashed |-> FALSE]} /\ UNCHANGED dgHost
           \/ dgHost' = Prepared("share", c.about, c.key) /\ UNCHANGED dgDone
  BY DEF HolderFound, DispatchHotkey, KeyAsked
<1>2. UNCHANGED <<dgReads, dgSaved, dgAgreed>>
  BY DEF HolderFound
<1>3. c \in Assignments /\ c \in dgSaved /\ c = [about |-> c.about, key |-> c.key]
  BY DEF DialogInv, Assignments
<1>4. \A d \in dgDone' : AgreedSave(d, dgSaved', dgAgreed')
  <2>1. dgDone' \subseteq dgDone \cup {[about |-> c.about, key |-> c.key, clashed |-> FALSE]}
    BY <1>1
  <2> QED BY <1>2, <1>3, <2>1, DoneStaysDone, FreeIsDispatched DEF DialogInv
<1>5. HostIsItsOwn(dgHost') /\ SharesSaved(dgHost', dgSaved')
  <2>1. CASE UNCHANGED dgHost
    BY <1>2, <2>1 DEF DialogInv, SharesSaved
  <2>2. CASE dgHost' = Prepared("share", c.about, c.key)
    <3>1. c.about \in Subjects /\ c.key \in DgKeys \cup {DgNone} /\ "share" \in Kinds \ {"none"}
      BY <1>3 DEF Assignments, Kinds
    <3> QED BY <1>2, <1>3, <2>2, <3>1, PreparedIsItsOwn DEF SharesSaved
  <2> QED BY <1>1, <2>1, <2>2
<1> QED BY <1>1, <1>2, <1>4, <1>5 DEF DialogInv

LEMMA ShareAnswered ==
  ASSUME DialogInv, AnswerShare
  PROVE  DialogInv'
<1> DEFINE it == [about |-> dgHost.about, key |-> dgHost.key]
<1>1. /\ dgAgreed' = dgAgreed \cup {it}
      /\ dgDone' = dgDone \cup {[about |-> dgHost.about, key |-> dgHost.key, clashed |-> TRUE]}
      /\ UNCHANGED <<dgReads, dgChecks, dgSaved>>
  BY DEF AnswerShare, DispatchHotkey
<1>2. it \in dgSaved
  BY AnswerIsOfTheShown DEF AnswerShare, DialogInv, SharesSaved
<1>3. HostIsItsOwn(dgHost') /\ dgHost'.kind = "none"
  BY DismissedIsItsOwn, AnsweredIsItsOwn DEF AnswerShare, DialogInv, HostIsItsOwn
<1>4. \A d \in dgDone' : AgreedSave(d, dgSaved', dgAgreed')
  BY <1>1, <1>2, DoneStaysDone, AgreedIsDispatched DEF DialogInv
<1> QED BY <1>1, <1>3, <1>4 DEF DialogInv, SharesSaved

LEMMA DialogInvariant == DgSpec => []DialogInv
<1>1. DgInit => DialogInv
  BY DEF DgInit, DialogInv, Hidden, HostIsItsOwn, DialogHosts, SharesSaved, Subjects, Kinds
<1>2. DialogInv /\ [DgNext]_dgVars => DialogInv'
  <2> SUFFICES ASSUME DialogInv, [DgNext]_dgVars PROVE DialogInv'
    OBVIOUS
  <2>1. CASE UNCHANGED dgVars
    BY <2>1 DEF dgVars, dgWork, dgHistory, DialogInv, SharesSaved, AgreedSave
  <2> QED BY <2>1, QuietDialogs, CaptureAnswered, HolderAnswered, ShareAnswered DEF DgNext
<1> QED BY <1>1, <1>2, PTL DEF DgSpec

(***************************************************************************)
(* The theorem.                                                            *)
(***************************************************************************)

\* A hotkey is only set that was saved in a dialog about its owner, and shared
\* where another sound had it: whatever dialogs, answers and errors come in
\* between (present, handle_response, hotkey_holder_async).
THEOREM AgreedHotkeysOnly == DgSpec => []HotkeysAreAgreedTo
<1>1. DialogInv => HotkeysAreAgreedTo
  BY DEF DialogInv, HostIsItsOwn, HotkeysAreAgreedTo, DialogIsItsOwn, AgreedSave
<1> QED BY <1>1, DialogInvariant, PTL

-----------------------------------------------------------------------------
(***************************************************************************)
(* HotkeyBindings.                                                         *)
(*                                                                         *)
(* The keys of the controls stay theirs, and the commands are clients of   *)
(* the gate of projections: each step of a command is a step of            *)
(* ProjectionGate, whose theorems then hold of it.                         *)
(***************************************************************************)

(***************************************************************************)
(* Shapes.                                                                 *)
(***************************************************************************)
CallPlaces == {"idle", "lookup", "check", "commit", "call", "wait", "project", "page",
               "stage", "publish", "done"}
CallFields == {"pc", "command", "id", "mine", "generation", "target", "seen", "result",
               "after", "error"}
BindCommands ==
  [owner : HkOwners, key : HkKeys \cup {HkNone}, scope : {HkNone, HkTab}, share : BOOLEAN]

\* A record of a call, whatever its fields hold, with a place that there is.
CallShape(c) == DOMAIN c = CallFields /\ c.pc \in CallPlaces

\* Every thread has a call.
CallShapes == DOMAIN call = HkThreads /\ \A t \in HkThreads : CallShape(call[t])

\* The scopes of the table, and the commands as HkBegin lets them through.
BindTypes ==
  /\ \A b \in table : b.scope \in {HkNone, HkTab}
  /\ unlisted \subseteq HkSounds
  /\ \A t \in HkThreads :
       /\ call[t].command \in BindCommands
       /\ call[t].command.share => call[t].command.owner \in HkSounds

\* A command that is about to commit still finds its key free.
CheckedIsFree ==
  overlooked \/ \A t \in HkThreads :
    call[t].pc = "commit" =>
      call[t].command.key = HkNone \/ ~Conflict(call[t].id, call[t].command)

BindInv == CallShapes /\ BindTypes /\ CheckedIsFree /\ ControlKeysAreTheirOwn

\* A step of a thread changes its own call.
LEMMA StepIs ==
  ASSUME CallShapes, NEW t \in HkThreads, NEW new, CallShape(new), Step(t, new)
  PROVE  /\ CallShapes'
         /\ call'[t] = new
         /\ \A u \in HkThreads \ {t} : call'[u] = call[u]
BY DEF CallShapes, CallShape, Step

\* Initially there is one binding, and no command.
LEMMA BindStart == HkInit => BindInv
<1> SUFFICES ASSUME HkInit PROVE BindInv
  OBVIOUS
<1> USE DEF HkInit
<1>1. \A t \in HkThreads : call[t] = IdleCall
  OBVIOUS
<1>2. CallShapes
  BY <1>1 DEF CallShapes, CallShape, IdleCall, CallFields, CallPlaces
<1>3. NoCommand \in BindCommands /\ ~NoCommand.share
  BY DEF NoCommand, BindCommands, HkOwners
<1>4. BindTypes
  BY <1>1, <1>3 DEF BindTypes, IdleCall
<1>5. CheckedIsFree
  BY <1>1 DEF CheckedIsFree, IdleCall
<1>6. \A a, b \in table : a = b
  OBVIOUS
<1>7. ControlKeysAreTheirOwn
  BY <1>6 DEF ControlKeysAreTheirOwn, LiveBindings
<1> QED BY <1>2, <1>4, <1>5, <1>7 DEF BindInv

\* What a thread that leaves table and folders alone has to keep: its own call.
LEMMA OwnCallOnly ==
  ASSUME BindInv, NEW t \in HkThreads, NEW new, CallShape(new), Step(t, new),
         UNCHANGED <<table, unlisted, overlooked>>,
         new.command \in BindCommands, new.command.share => new.command.owner \in HkSounds,
         overlooked \/ new.pc # "commit" \/ new.command.key = HkNone \/ ~Conflict(new.id, new.command)
  PROVE  BindInv'
<1>1. /\ CallShapes' /\ call'[t] = new
      /\ \A u \in HkThreads \ {t} : call'[u] = call[u]
  BY StepIs DEF BindInv
<1>2. LiveBindings' = LiveBindings
  BY DEF LiveBindings, LiveBinding
<1>3. BindTypes'
  BY <1>1 DEF BindInv, BindTypes
<1>4. CheckedIsFree'
  BY <1>1, <1>2 DEF BindInv, CheckedIsFree, Conflict
<1>5. ControlKeysAreTheirOwn'
  BY <1>2 DEF BindInv, ControlKeysAreTheirOwn
<1> QED BY <1>1, <1>3, <1>4, <1>5 DEF BindInv

\* A step that goes on with the same command, to another place than the commit.
LEMMA SameCommand ==
  ASSUME BindInv, NEW t \in HkThreads, NEW new, CallShape(new), Step(t, new),
         UNCHANGED <<table, unlisted, overlooked>>,
         new.command = call[t].command \/ new.command = NoCommand, new.pc # "commit"
  PROVE  BindInv'
<1>1. NoCommand \in BindCommands /\ ~NoCommand.share
  BY DEF NoCommand, BindCommands, HkOwners
<1>2. new.command \in BindCommands /\ (new.command.share => new.command.owner \in HkSounds)
  BY <1>1 DEF BindInv, BindTypes
<1> QED BY <1>2, OwnCallOnly

LEMMA BeginKeeps == ASSUME BindInv, NEW t \in HkThreads, HkBegin(t) PROVE BindInv'
<1> USE DEF HkBegin
<1>1. PICK o \in HkOwners, k \in HkKeys \cup {HkNone}, share \in BOOLEAN, scope \in {HkNone, HkTab} :
        /\ o \notin HkSounds => ~share
        /\ Step(t, [call[t] EXCEPT
                      !.pc = IF o \in HkSounds THEN "lookup" ELSE "check",
                      !.id = IF o \in HkSounds THEN 0 ELSE FixedId(o),
                      !.command = [owner |-> o, key |-> k, scope |-> scope, share |-> share]])
  OBVIOUS
<1> DEFINE new == [call[t] EXCEPT
                      !.pc = IF o \in HkSounds THEN "lookup" ELSE "check",
                      !.id = IF o \in HkSounds THEN 0 ELSE FixedId(o),
                      !.command = [owner |-> o, key |-> k, scope |-> scope, share |-> share]]
<1>2. CallShape(call[t])
  BY DEF BindInv, CallShapes
<1>3. /\ CallShape(new) /\ new.pc # "commit"
      /\ new.command = [owner |-> o, key |-> k, scope |-> scope, share |-> share]
  BY <1>2 DEF CallShape, CallFields, CallPlaces
<1>4. new.command \in BindCommands /\ (new.command.share => new.command.owner \in HkSounds)
  BY <1>1, <1>3 DEF BindCommands
<1>5. Step(t, new)
  BY <1>1
<1> HIDE DEF new
<1> QED BY <1>3, <1>4, <1>5, OwnCallOnly

LEMMA LookupKeeps == ASSUME BindInv, NEW t \in HkThreads, HkLookup(t) PROVE BindInv'
<1>1. PICK id : Step(t, [call[t] EXCEPT !.pc = "check", !.id = id])
  BY DEF HkLookup
<1> DEFINE new == [call[t] EXCEPT !.pc = "check", !.id = id]
<1>2. CallShape(call[t]) /\ UNCHANGED <<table, unlisted, overlooked>>
  BY DEF BindInv, CallShapes, HkLookup
<1>3. CallShape(new) /\ new.pc # "commit" /\ new.command = call[t].command
  BY <1>2 DEF CallShape, CallFields, CallPlaces
<1>4. Step(t, new)
  BY <1>1
<1> HIDE DEF new
<1> QED BY <1>2, <1>3, <1>4, SameCommand

LEMMA CheckKeeps == ASSUME BindInv, NEW t \in HkThreads, HkCheck(t) PROVE BindInv'
<1> DEFINE ended == [Forget(call[t]) EXCEPT !.pc = "idle"]
           new == [call[t] EXCEPT !.pc = "commit"]
<1>1. CallShape(call[t]) /\ UNCHANGED <<table, unlisted, overlooked>>
  BY DEF BindInv, CallShapes, HkCheck
<1>2. CallShape(ended) /\ ended.pc # "commit" /\ ended.command = NoCommand
  BY <1>1 DEF CallShape, CallFields, CallPlaces, Forget
<1>3. CallShape(new) /\ new.command = call[t].command /\ new.id = call[t].id
  BY <1>1 DEF CallShape, CallFields, CallPlaces
<1>4. \/ Step(t, ended)
      \/ /\ Step(t, new)
         /\ call[t].command.key = HkNone \/ ~Conflict(call[t].id, call[t].command)
  BY DEF HkCheck
<1>5. new.command \in BindCommands /\ (new.command.share => new.command.owner \in HkSounds)
  BY <1>3 DEF BindInv, BindTypes
<1> HIDE DEF ended, new
<1>6. CASE Step(t, ended)
  BY <1>1, <1>2, <1>6, SameCommand
<1>7. ASSUME Step(t, new), call[t].command.key = HkNone \/ ~Conflict(call[t].id, call[t].command)
      PROVE  BindInv'
  <2>1. new.command.key = HkNone \/ ~Conflict(new.id, new.command)
    BY <1>3, <1>7
  <2> QED BY <1>1, <1>3, <1>5, <1>7, <2>1, OwnCallOnly
<1> QED BY <1>4, <1>6, <1>7

\* The commit is what the check was for: the row it adds shares its key with
\* rows of sounds only, and then is a sound's itself.
LEMMA CommitKeeps == ASSUME BindInv, NEW t \in HkThreads, HkCommit(t) PROVE BindInv'
<1> DEFINE new == [Forget(call[t]) EXCEPT !.pc = "call", !.mine = edits']
           c == call[t].command
           id == call[t].id
           row == [id |-> id, owner |-> c.owner, scope |-> c.scope, key |-> c.key]
<1>1. /\ call[t].pc = "commit" /\ table' = Committed(id, c) /\ UNCHANGED unlisted
      /\ overlooked' = (overlooked \/ \E u \in HkThreads \ {t} : HkAt(u, "commit"))
      /\ Step(t, new)
  BY DEF HkCommit, HkAt
<1>2. CallShape(call[t])
  BY DEF BindInv, CallShapes
<1>3. CallShape(new) /\ new.pc = "call" /\ new.command = NoCommand
  BY <1>2 DEF CallShape, CallFields, CallPlaces, Forget
<1> HIDE DEF new
<1>4. /\ CallShapes' /\ call'[t] = new
      /\ \A u \in HkThreads \ {t} : call'[u] = call[u]
  BY <1>1, <1>3, StepIs DEF BindInv
<1>5. c \in BindCommands /\ (c.share => c.owner \in HkSounds)
  BY DEF BindInv, BindTypes
<1>6. \A b \in table' : (b \in table /\ b.id # id) \/ (b = row /\ c.key # HkNone)
  BY <1>1 DEF Committed
<1>7. BindTypes'
  <2>1. NoCommand \in BindCommands /\ ~NoCommand.share
    BY DEF NoCommand, BindCommands, HkOwners
  <2>2. \A b \in table' : b.scope \in {HkNone, HkTab}
    BY <1>5, <1>6 DEF BindInv, BindTypes, BindCommands
  <2> QED BY <1>1, <1>3, <1>4, <2>1, <2>2 DEF BindInv, BindTypes
<1>8. CheckedIsFree'
  <2>1. CASE \E u \in HkThreads \ {t} : HkAt(u, "commit")
    BY <1>1, <2>1 DEF CheckedIsFree
  <2>2. CASE ~\E u \in HkThreads \ {t} : HkAt(u, "commit")
    BY <1>3, <1>4, <2>2 DEF CheckedIsFree, HkAt
  <2> QED BY <2>1, <2>2
<1>9. ControlKeysAreTheirOwn'
  <2> SUFFICES ASSUME ~overlooked', NEW a \in table', NEW b \in table',
                      LiveBinding(a)', LiveBinding(b)', a.key = b.key, a # b
               PROVE  {a.owner, b.owner} \subseteq HkSounds
    BY DEF ControlKeysAreTheirOwn, LiveBindings
  <2>1. ~overlooked /\ LiveBinding(a) /\ LiveBinding(b)
    BY <1>1 DEF LiveBinding
  <2>2. ASSUME NEW x \in table, x.id # id, LiveBinding(x), x.key = row.key, c.key # HkNone
        PROVE  x.owner \in HkSounds /\ row.owner \in HkSounds
    <3>1. ~Conflict(id, c)
      BY <1>1, <2>1, <2>2 DEF BindInv, CheckedIsFree
    <3>2. (c.share /\ x.owner \in HkSounds) \/ ~(x.scope = HkNone \/ c.scope = HkNone \/ x.scope = c.scope)
      BY <2>2, <3>1 DEF Conflict, LiveBindings
    <3>3. x.scope \in {HkNone, HkTab} /\ c.scope \in {HkNone, HkTab}
      BY <1>5 DEF BindInv, BindTypes, BindCommands
    <3> QED BY <1>5, <3>2, <3>3
  <2>3. CASE a \in table /\ b \in table /\ a.id # id /\ b.id # id
    BY <2>1, <2>3 DEF BindInv, ControlKeysAreTheirOwn, LiveBindings
  <2>4. CASE a \in table /\ a.id # id /\ b = row /\ c.key # HkNone
    BY <2>1, <2>2, <2>4
  <2>5. CASE b \in table /\ b.id # id /\ a = row /\ c.key # HkNone
    BY <2>1, <2>2, <2>5
  <2> QED BY <1>6, <2>3, <2>4, <2>5
<1> QED BY <1>4, <1>7, <1>8, <1>9 DEF BindInv

\* Hiding a folder takes keys away; showing one again is noted.
LEMMA HideKeeps == ASSUME BindInv, HkHide PROVE BindInv'
<1>1. /\ UNCHANGED <<table, call>> /\ unlisted' \subseteq HkSounds
      /\ overlooked' = (overlooked \/ ~(unlisted \subseteq unlisted'))
  BY DEF HkHide, BindInv, BindTypes
<1>2. CallShapes'
  BY <1>1 DEF BindInv, CallShapes, CallShape
<1>3. BindTypes'
  BY <1>1 DEF BindInv, BindTypes
<1>4. ASSUME ~overlooked' PROVE LiveBindings' \subseteq LiveBindings /\ ~overlooked
  BY <1>1, <1>4 DEF LiveBindings, LiveBinding
<1>5. CheckedIsFree'
  BY <1>1, <1>4 DEF BindInv, CheckedIsFree, Conflict
<1>6. ControlKeysAreTheirOwn'
  BY <1>4 DEF BindInv, ControlKeysAreTheirOwn
<1> QED BY <1>2, <1>3, <1>5, <1>6 DEF BindInv

\* From the gate on nothing looks at the commands: such a step keeps the
\* invariant whatever it does with the rest.
LEMMA AfterCommitKeeps ==
  ASSUME BindInv, NEW t \in HkThreads,
         HkEnter(t) \/ HkReadPage(t) \/ HkCommitStaged(t) \/ HkPublish(t) \/ HkWake(t) \/ HkReturn(t)
  PROVE  BindInv'
<1> DEFINE Moves(new) == CallShape(new) /\ new.pc # "commit" /\ new.command = call[t].command
<1>1. CallShape(call[t])
  BY DEF BindInv, CallShapes
<1>2. UNCHANGED <<table, unlisted, overlooked>>
  BY DEF HkEnter, HkReadPage, HkCommitStaged, HkPublish, HkWake, HkReturn
<1>3. CASE UNCHANGED call
  <2>1. LiveBindings' = LiveBindings
    BY <1>2 DEF LiveBindings, LiveBinding
  <2> QED BY <1>2, <1>3, <2>1 DEF BindInv, CallShapes, CallShape, BindTypes, CheckedIsFree,
                                 ControlKeysAreTheirOwn, Conflict
<1>4. ASSUME ~UNCHANGED call PROVE \E new : Moves(new) /\ Step(t, new)
  <2> USE <1>1, <1>4 DEF CallShape, CallFields, CallPlaces
  <2>1. CASE HkEnter(t)
    BY <2>1 DEF HkEnter
  <2>2. CASE HkReadPage(t)
    BY <2>2 DEF HkReadPage
  <2>3. CASE HkCommitStaged(t)
    BY <2>3 DEF HkCommitStaged
  <2>4. CASE HkPublish(t)
    BY <2>4 DEF HkPublish
  <2>5. CASE HkWake(t)
    BY <2>5 DEF HkWake
  <2>6. CASE HkReturn(t)
    BY <2>6 DEF HkReturn
  <2> QED BY <2>1, <2>2, <2>3, <2>4, <2>5, <2>6
<1> QED BY <1>2, <1>3, <1>4, SameCommand

LEMMA BindStep == BindInv /\ [HkNext]_hkVars => BindInv'
<1> SUFFICES ASSUME BindInv, [HkNext]_hkVars PROVE BindInv'
  OBVIOUS
<1>1. CASE HkHide
  BY <1>1, HideKeeps
<1>2. ASSUME NEW t \in HkThreads, HkBegin(t) \/ HkLookup(t) \/ HkCheck(t) \/ HkCommit(t)
      PROVE  BindInv'
  BY <1>2, BeginKeeps, LookupKeeps, CheckKeeps, CommitKeeps
<1>3. ASSUME NEW t \in HkThreads,
             HkEnter(t) \/ HkReadPage(t) \/ HkCommitStaged(t) \/ HkPublish(t) \/ HkWake(t) \/ HkReturn(t)
      PROVE  BindInv'
  BY <1>3, AfterCommitKeeps
<1>4. CASE UNCHANGED hkVars
  BY <1>4 DEF hkVars, BindInv, CallShapes, CallShape, BindTypes, CheckedIsFree, Conflict,
              ControlKeysAreTheirOwn, LiveBindings, LiveBinding
<1> QED BY <1>1, <1>2, <1>3, <1>4 DEF HkNext

\* A control's or a tab's key is nobody else's, however many threads bind keys
\* and folders come and go, unless a commit came between another command's
\* check and its commit or a folder was shown again (commands/hotkeys.rs checks
\* and commits in two requests).
THEOREM ControlsKeepTheirKeys == HkSpec => []ControlKeysAreTheirOwn
<1>1. BindInv => ControlKeysAreTheirOwn
  BY DEF BindInv
<1> QED BY <1>1, BindStart, BindStep, PTL DEF HkSpec

(***************************************************************************)
(* The gate is implemented.                                                *)
(***************************************************************************)
GateFields == {"requested", "completed", "running", "last", "notified"}
GateShape == DOMAIN gate = GateFields

\* The gate's variables, as the instance has them.
LEMMA GateVarsAre ==
  ASSUME UNCHANGED <<edits, gate, call>>
  PROVE  UNCHANGED Gate!vars
BY DEF Gate!vars, Gate!gateVars, Gate!localVars

LEMMA GateStart == HkInit => Gate!Init /\ GateShape
<1> SUFFICES ASSUME HkInit PROVE Gate!Init /\ GateShape
  OBVIOUS
<1>1. \A t \in HkThreads : call[t] = IdleCall
  BY DEF HkInit
<1> QED BY <1>1 DEF HkInit, Gate!Init, IdleCall, HkOutcome, Gate!NoOutcome, GateShape, GateFields

LEMMA ReturnIsReturn ==
  ASSUME CallShapes, GateShape, NEW t \in HkThreads, HkReturn(t)
  PROVE  Gate!Return(t)
<1> DEFINE new == [call[t] EXCEPT !.pc = "idle"]
<1>1. CallShape(call[t]) /\ Step(t, new) /\ call[t].pc = "done" /\ UNCHANGED <<edits, gate>>
  BY DEF CallShapes, HkReturn, HkAt
<1>2. CallShape(new) /\ new.pc = "idle" /\ \A f \in CallFields \ {"pc"} : new[f] = call[t][f]
  BY <1>1 DEF CallShape, CallFields, CallPlaces
<1> HIDE DEF new
<1>3. call'[t] = new /\ \A u \in HkThreads \ {t} : call'[u] = call[u]
  BY <1>1, <1>2, StepIs
<1> QED BY <1>1, <1>2, <1>3 DEF Gate!Return, Gate!At, Gate!Goto, Gate!gateVars, Gate!localVars, CallFields

\* What a step does to the caller's record, and that it leaves the others alone.
LEMMA CallerIs ==
  ASSUME CallShapes, NEW t \in HkThreads, NEW new, Step(t, new),
         DOMAIN new = CallFields, new.pc \in CallPlaces
  PROVE  call'[t] = new /\ \A u \in HkThreads \ {t} : call'[u] = call[u]
BY StepIs DEF CallShape

LEMMA BeginStutters ==
  ASSUME CallShapes, NEW t \in HkThreads, HkBegin(t) \/ HkLookup(t) \/ HkCheck(t)
  PROVE  UNCHANGED Gate!vars
<1>1. CallShape(call[t]) /\ UNCHANGED <<edits, gate>> /\ call[t].pc \in {"idle", "lookup", "check"}
  BY DEF CallShapes, HkBegin, HkLookup, HkCheck, HkAt
<1>2. \E new : /\ Step(t, new) /\ CallShape(new)
               /\ new.pc \in {"idle", "lookup", "check", "commit"}
               /\ \A f \in CallFields \ {"pc", "id", "command"} : new[f] = call[t][f]
  <2> USE <1>1 DEF CallShape, CallFields, CallPlaces
  <2>1. ASSUME HkBegin(t)
        PROVE  \E p \in {"lookup", "check"} : \E i, c :
                 Step(t, [call[t] EXCEPT !.pc = p, !.id = i, !.command = c])
    BY <2>1 DEF HkBegin
  <2>2. ASSUME HkLookup(t) PROVE \E i : Step(t, [call[t] EXCEPT !.pc = "check", !.id = i])
    BY <2>2 DEF HkLookup
  <2>3. ASSUME HkCheck(t)
        PROVE  \/ Step(t, [[call[t] EXCEPT !.command = NoCommand, !.id = 0] EXCEPT !.pc = "idle"])
               \/ Step(t, [call[t] EXCEPT !.pc = "commit"])
    BY <2>3 DEF HkCheck, Forget
  <2>4. CASE HkBegin(t)
    <3>1. PICK p \in {"lookup", "check"} : \E i, c :
            Step(t, [call[t] EXCEPT !.pc = p, !.id = i, !.command = c])
      BY <2>1, <2>4
    <3>4. PICK i, c : Step(t, [call[t] EXCEPT !.pc = p, !.id = i, !.command = c])
      BY <3>1
    <3> DEFINE new == [call[t] EXCEPT !.pc = p, !.id = i, !.command = c]
    <3>2. /\ CallShape(new) /\ new.pc = p
          /\ \A f \in CallFields \ {"pc", "id", "command"} : new[f] = call[t][f]
      OBVIOUS
    <3>3. Step(t, new)
      BY <3>4
    <3> HIDE DEF new
    <3> QED BY <3>2, <3>3
  <2>5. CASE HkLookup(t)
    <3>1. PICK i : Step(t, [call[t] EXCEPT !.pc = "check", !.id = i])
      BY <2>2, <2>5
    <3> DEFINE new == [call[t] EXCEPT !.pc = "check", !.id = i]
    <3>2. /\ CallShape(new) /\ new.pc = "check"
          /\ \A f \in CallFields \ {"pc", "id", "command"} : new[f] = call[t][f]
      OBVIOUS
    <3>3. Step(t, new)
      BY <3>1
    <3> HIDE DEF new
    <3> QED BY <3>2, <3>3
  <2>6. CASE HkCheck(t)
    <3> DEFINE ended == [[call[t] EXCEPT !.command = NoCommand, !.id = 0] EXCEPT !.pc = "idle"]
               new == [call[t] EXCEPT !.pc = "commit"]
    <3>1. /\ CallShape(ended) /\ ended.pc = "idle"
          /\ \A f \in CallFields \ {"pc", "id", "command"} : ended[f] = call[t][f]
      OBVIOUS
    <3>2. /\ CallShape(new) /\ new.pc = "commit"
          /\ \A f \in CallFields \ {"pc", "id", "command"} : new[f] = call[t][f]
      OBVIOUS
    <3>3. Step(t, ended) \/ Step(t, new)
      BY <2>3, <2>6
    <3> HIDE DEF ended, new
    <3> QED BY <3>1, <3>2, <3>3
  <2> QED BY <2>4, <2>5, <2>6
<1>3. PICK new : /\ Step(t, new) /\ CallShape(new)
                 /\ new.pc \in {"idle", "lookup", "check", "commit"}
                 /\ \A f \in CallFields \ {"pc", "id", "command"} : new[f] = call[t][f]
  BY <1>2
<1>4. call'[t] = new /\ \A u \in HkThreads \ {t} : call'[u] = call[u]
  BY <1>3, StepIs
<1> QED BY <1>1, <1>3, <1>4 DEF Gate!vars, Gate!gateVars, Gate!localVars, CallFields

LEMMA CommitIsEdit ==
  ASSUME CallShapes, NEW t \in HkThreads, HkCommit(t)
  PROVE  Gate!Edit(t)
<1> DEFINE new == [Forget(call[t]) EXCEPT !.pc = "call", !.mine = edits']
<1>1. /\ CallShape(call[t]) /\ Step(t, new) /\ call[t].pc = "commit"
      /\ edits < HkMaxEdits /\ edits' = edits + 1 /\ UNCHANGED gate
  BY DEF CallShapes, HkCommit, HkAt
<1>2. /\ CallShape(new) /\ new.pc = "call" /\ new.mine = edits'
      /\ \A f \in CallFields \ {"pc", "id", "command", "mine"} : new[f] = call[t][f]
  BY <1>1 DEF CallShape, CallFields, CallPlaces, Forget
<1> HIDE DEF new
<1>3. call'[t] = new /\ \A u \in HkThreads \ {t} : call'[u] = call[u]
  BY <1>1, <1>2, StepIs
<1> QED BY <1>1, <1>2, <1>3 DEF Gate!Edit, Gate!At, Gate!Goto, Gate!gateVars, Gate!localVars, CallFields

LEMMA EnterIsEnter ==
  ASSUME CallShapes, GateShape, NEW t \in HkThreads, HkEnter(t)
  PROVE  Gate!Enter(t)
<1>1. /\ CallShape(call[t]) /\ call[t].pc = "call" /\ UNCHANGED edits
      /\ gate' = [gate EXCEPT !.requested = @ + 1, !.running = TRUE]
  BY DEF CallShapes, HkEnter, HkAt
<1>2. /\ gate'.requested = gate.requested + 1 /\ gate'.running
      /\ gate'.completed = gate.completed /\ gate'.last = gate.last /\ gate'.notified = gate.notified
  BY <1>1 DEF GateShape, GateFields
<1>3. CASE gate.running
  <2> DEFINE new == [call[t] EXCEPT !.pc = "wait", !.generation = gate'.requested]
  <2>1. Step(t, new)
    BY <1>3 DEF HkEnter
  <2>2. /\ CallShape(new) /\ new.pc = "wait" /\ new.generation = gate'.requested
        /\ \A f \in CallFields \ {"pc", "generation"} : new[f] = call[t][f]
    BY <1>1 DEF CallShape, CallFields, CallPlaces
  <2> HIDE DEF new
  <2>3. call'[t] = new /\ \A u \in HkThreads \ {t} : call'[u] = call[u]
    BY <2>1, <2>2, StepIs
  <2>4. Gate!At(t, "call") /\ Gate!Goto(t, "wait")
    BY <1>1, <2>2, <2>3 DEF Gate!At, Gate!Goto
  <2>5. [u \in HkThreads |-> call[u].generation]'
          = [[u \in HkThreads |-> call[u].generation] EXCEPT ![t] = gate'.requested]
    BY <2>2, <2>3
  <2>6. /\ \A u \in HkThreads : /\ call'[u].mine = call[u].mine /\ call'[u].seen = call[u].seen
                                /\ call'[u].result = call[u].result /\ call'[u].target = call[u].target
    BY <2>2, <2>3 DEF CallFields
  <2> QED BY <1>1, <1>2, <1>3, <2>4, <2>5, <2>6 DEF Gate!Enter
<1>4. CASE ~gate.running
  <2> DEFINE new == [call[t] EXCEPT !.pc = "project", !.generation = gate'.requested,
                                    !.target = gate'.requested]
  <2>1. Step(t, new)
    BY <1>4 DEF HkEnter
  <2>2. /\ CallShape(new) /\ new.pc = "project" /\ new.generation = gate'.requested
        /\ new.target = gate'.requested
        /\ \A f \in CallFields \ {"pc", "generation", "target"} : new[f] = call[t][f]
    BY <1>1 DEF CallShape, CallFields, CallPlaces
  <2> HIDE DEF new
  <2>3. call'[t] = new /\ \A u \in HkThreads \ {t} : call'[u] = call[u]
    BY <2>1, <2>2, StepIs
  <2> QED BY <1>1, <1>2, <1>4, <2>2, <2>3 DEF Gate!Enter, Gate!At, Gate!Goto, CallFields
<1> QED BY <1>3, <1>4

\* The first page is the gate's projection; the pages after it, and the commit
\* of what was staged, change nothing the gate knows.
LEMMA ReadPageProjects ==
  ASSUME CallShapes, NEW t \in HkThreads, HkReadPage(t)
  PROVE  Gate!Project(t) \/ UNCHANGED Gate!vars
<1>1. /\ CallShape(call[t]) /\ call[t].pc \in {"project", "page"} /\ UNCHANGED <<edits, gate>>
  BY DEF CallShapes, HkReadPage, HkAt
<1>2. \E new : /\ Step(t, new) /\ CallShape(new)
               /\ new.pc \in {"page", "stage", "publish"}
               /\ new.seen = IF call[t].pc = "project" THEN edits ELSE call[t].seen
               /\ \A f \in CallFields \ {"pc", "seen", "error", "after"} : new[f] = call[t][f]
  <2>1. PICK p \in {"page", "stage", "publish"} : \E after, error :
          Step(t, [call[t] EXCEPT !.pc = p, !.seen = IF call[t].pc = "project" THEN edits ELSE call[t].seen,
                                  !.error = error, !.after = after])
    BY DEF HkReadPage, HkAt
  <2>4. PICK after, error :
          Step(t, [call[t] EXCEPT !.pc = p, !.seen = IF call[t].pc = "project" THEN edits ELSE call[t].seen,
                                  !.error = error, !.after = after])
    BY <2>1
  <2> DEFINE seen == IF call[t].pc = "project" THEN edits ELSE call[t].seen
             new == [call[t] EXCEPT !.pc = p, !.seen = seen, !.error = error, !.after = after]
  <2>2. /\ CallShape(new) /\ new.pc = p /\ new.seen = seen
        /\ \A f \in CallFields \ {"pc", "seen", "error", "after"} : new[f] = call[t][f]
    BY <1>1 DEF CallShape, CallFields, CallPlaces
  <2>3. Step(t, new)
    BY <2>4
  <2> HIDE DEF new
  <2> QED BY <2>2, <2>3
<1>3. PICK new : /\ Step(t, new) /\ CallShape(new)
                 /\ new.pc \in {"page", "stage", "publish"}
                 /\ new.seen = IF call[t].pc = "project" THEN edits ELSE call[t].seen
                 /\ \A f \in CallFields \ {"pc", "seen", "error", "after"} : new[f] = call[t][f]
  BY <1>2
<1>4. call'[t] = new /\ \A u \in HkThreads \ {t} : call'[u] = call[u]
  BY <1>3, StepIs
<1>5. CASE call[t].pc = "project"
  BY <1>1, <1>3, <1>4, <1>5 DEF Gate!Project, Gate!At, Gate!Goto, Gate!gateVars, CallFields
<1>6. CASE call[t].pc = "page"
  BY <1>1, <1>3, <1>4, <1>6 DEF Gate!vars, Gate!gateVars, Gate!localVars, CallFields
<1> QED BY <1>1, <1>5, <1>6

LEMMA CommitStagedStutters ==
  ASSUME CallShapes, NEW t \in HkThreads, HkCommitStaged(t)
  PROVE  UNCHANGED Gate!vars
<1>1. /\ CallShape(call[t]) /\ call[t].pc = "stage" /\ UNCHANGED <<edits, gate>>
  BY DEF CallShapes, HkCommitStaged, HkAt
<1>2. \E new : /\ Step(t, new) /\ CallShape(new) /\ new.pc = "publish"
               /\ \A f \in CallFields \ {"pc", "error"} : new[f] = call[t][f]
  <2> DEFINE new == [call[t] EXCEPT !.pc = "publish"]
             failed == [call[t] EXCEPT !.pc = "publish", !.error = TRUE]
  <2>1. /\ CallShape(new) /\ new.pc = "publish" /\ CallShape(failed) /\ failed.pc = "publish"
        /\ \A f \in CallFields \ {"pc", "error"} : new[f] = call[t][f] /\ failed[f] = call[t][f]
    BY <1>1 DEF CallShape, CallFields, CallPlaces
  <2>2. Step(t, new) \/ Step(t, failed)
    BY DEF HkCommitStaged
  <2> HIDE DEF new, failed
  <2> QED BY <2>1, <2>2
<1>3. PICK new : /\ Step(t, new) /\ CallShape(new) /\ new.pc = "publish"
                 /\ \A f \in CallFields \ {"pc", "error"} : new[f] = call[t][f]
  BY <1>2
<1>4. call'[t] = new /\ \A u \in HkThreads \ {t} : call'[u] = call[u]
  BY <1>3, StepIs
<1> QED BY <1>1, <1>3, <1>4 DEF Gate!vars, Gate!gateVars, Gate!localVars, CallFields

LEMMA WakeIsWake ==
  ASSUME CallShapes, GateShape, NEW t \in HkThreads, HkWake(t)
  PROVE  Gate!Wake(t)
<1>1. /\ CallShape(call[t]) /\ call[t].pc = "wait" /\ t \in gate.notified /\ UNCHANGED edits
      /\ gate' = [gate EXCEPT !.notified = @ \ {t}]
  BY DEF CallShapes, HkWake, HkAt
<1>2. /\ gate'.notified = gate.notified \ {t} /\ gate'.requested = gate.requested
      /\ gate'.completed = gate.completed /\ gate'.last = gate.last /\ gate'.running = gate.running
  BY <1>1 DEF GateShape, GateFields
<1>3. CASE gate.completed < call[t].generation
  <2>1. UNCHANGED call
    BY <1>3 DEF HkWake
  <2> QED BY <1>1, <1>2, <1>3, <2>1 DEF Gate!Wake, Gate!At
<1>4. CASE ~(gate.completed < call[t].generation)
  <2> DEFINE new == [call[t] EXCEPT !.pc = "done", !.result = gate.last]
  <2>1. Step(t, new)
    BY <1>4 DEF HkWake
  <2>2. /\ CallShape(new) /\ new.pc = "done" /\ new.result = gate.last
        /\ \A f \in CallFields \ {"pc", "result"} : new[f] = call[t][f]
    BY <1>1 DEF CallShape, CallFields, CallPlaces
  <2> HIDE DEF new
  <2>3. call'[t] = new /\ \A u \in HkThreads \ {t} : call'[u] = call[u]
    BY <2>1, <2>2, StepIs
  <2>4. Gate!At(t, "wait") /\ Gate!Goto(t, "done")
    BY <1>1, <2>2, <2>3 DEF Gate!At, Gate!Goto
  <2>5. [u \in HkThreads |-> call[u].result]'
          = [[u \in HkThreads |-> call[u].result] EXCEPT ![t] = gate.last]
    BY <2>2, <2>3
  <2>6. /\ \A u \in HkThreads : /\ call'[u].mine = call[u].mine /\ call'[u].seen = call[u].seen
                                /\ call'[u].generation = call[u].generation
                                /\ call'[u].target = call[u].target
    BY <2>2, <2>3 DEF CallFields
  <2> QED BY <1>1, <1>2, <1>4, <2>4, <2>5, <2>6 DEF Gate!Wake
<1> QED BY <1>3, <1>4

LEMMA PublishIsPublish ==
  ASSUME CallShapes, GateShape, NEW t \in HkThreads, HkPublish(t)
  PROVE  Gate!Publish(t)
<1> DEFINE outcome == HkOutcome(~call[t].error, call[t].seen)
<1>1. CallShape(call[t]) /\ call[t].pc = "publish" /\ UNCHANGED edits
  BY DEF CallShapes, HkPublish, HkAt
<1>2. \E ok \in BOOLEAN : outcome = [ok |-> ok, version |-> call[t].seen]
  BY DEF HkOutcome
<1>3. CASE gate.requested = call[t].target
  <2> DEFINE new == [call[t] EXCEPT !.pc = "done", !.result = outcome]
  <2>1. /\ Step(t, new)
        /\ gate' = [gate EXCEPT !.completed = call[t].target, !.running = FALSE, !.last = outcome,
                                !.notified = {u \in HkThreads : HkAt(u, "wait")}]
    BY <1>3 DEF HkPublish
  <2>2. /\ CallShape(new) /\ new.pc = "done" /\ new.result = outcome
        /\ \A f \in CallFields \ {"pc", "result"} : new[f] = call[t][f]
    BY <1>1 DEF CallShape, CallFields, CallPlaces
  <2>3. /\ gate'.completed = call[t].target /\ gate'.running = FALSE /\ gate'.last = outcome
        /\ gate'.notified = {u \in HkThreads : HkAt(u, "wait")} /\ gate'.requested = gate.requested
    BY <2>1 DEF GateShape, GateFields
  <2> HIDE DEF new, outcome
  <2>4. call'[t] = new /\ \A u \in HkThreads \ {t} : call'[u] = call[u]
    BY <2>1, <2>2, StepIs
  <2>5. Gate!PublishOutcome(t)
    BY <1>1, <1>2, <2>2, <2>3, <2>4 DEF Gate!PublishOutcome, Gate!At, CallFields
  <2>6. Gate!Waiters = {u \in HkThreads : HkAt(u, "wait")}
    BY DEF Gate!Waiters, Gate!At, HkAt, CallShapes, CallShape, CallPlaces
  <2>7. Gate!Finish(t, Gate!Waiters)
    BY <1>1, <2>2, <2>3, <2>4, <2>6 DEF Gate!Finish, Gate!Goto, CallFields
  <2> QED BY <1>3, <2>3, <2>5, <2>7 DEF Gate!Publish
<1>4. CASE gate.requested # call[t].target
  <2> DEFINE new == [call[t] EXCEPT !.pc = "project", !.target = gate.requested]
  <2>1. /\ Step(t, new)
        /\ gate' = [gate EXCEPT !.completed = call[t].target, !.last = outcome]
    BY <1>4 DEF HkPublish
  <2>2. /\ CallShape(new) /\ new.pc = "project" /\ new.target = gate.requested
        /\ \A f \in CallFields \ {"pc", "target"} : new[f] = call[t][f]
    BY <1>1 DEF CallShape, CallFields, CallPlaces
  <2>3. /\ gate'.completed = call[t].target /\ gate'.running = gate.running /\ gate'.last = outcome
        /\ gate'.notified = gate.notified /\ gate'.requested = gate.requested
    BY <2>1 DEF GateShape, GateFields
  <2> HIDE DEF new, outcome
  <2>4. call'[t] = new /\ \A u \in HkThreads \ {t} : call'[u] = call[u]
    BY <2>1, <2>2, StepIs
  <2>5. Gate!PublishOutcome(t)
    BY <1>1, <1>2, <2>2, <2>3, <2>4 DEF Gate!PublishOutcome, Gate!At, CallFields
  <2>6. Gate!RunAgain(t)
    BY <1>1, <2>2, <2>3, <2>4 DEF Gate!RunAgain, Gate!Goto, CallFields
  <2> QED BY <1>4, <2>3, <2>5, <2>6 DEF Gate!Publish
<1> QED BY <1>3, <1>4

LEMMA GateShapeStep == GateShape /\ [HkNext]_hkVars => GateShape'
BY DEF GateShape, GateFields, HkNext, hkVars, HkHide, HkBegin, HkLookup, HkCheck, HkCommit, HkEnter,
       HkReadPage, HkCommitStaged, HkPublish, HkWake, HkReturn

\* Every step of a command or a projection is a step of the gate, or none.
LEMMA GateStep ==
  ASSUME CallShapes, GateShape, [HkNext]_hkVars
  PROVE  [Gate!Next]_(Gate!vars)
<1>1. CASE HkHide
  BY <1>1, GateVarsAre DEF HkHide
<1>2. ASSUME NEW t \in HkThreads,
             HkBegin(t) \/ HkLookup(t) \/ HkCheck(t) \/ HkCommitStaged(t)
      PROVE  UNCHANGED Gate!vars
  BY <1>2, BeginStutters, CommitStagedStutters
<1>3. ASSUME NEW t \in HkThreads,
             HkCommit(t) \/ HkEnter(t) \/ HkPublish(t) \/ HkWake(t) \/ HkReturn(t)
      PROVE  Gate!Next
  BY <1>3, CommitIsEdit, EnterIsEnter, PublishIsPublish, WakeIsWake, ReturnIsReturn DEF Gate!Next
<1>4. ASSUME NEW t \in HkThreads, HkReadPage(t) PROVE [Gate!Next]_(Gate!vars)
  BY <1>4, ReadPageProjects DEF Gate!Next
<1>5. CASE UNCHANGED hkVars
  BY <1>5, GateVarsAre DEF hkVars
<1> QED BY <1>1, <1>2, <1>3, <1>4, <1>5 DEF HkNext

\* Commands and paged projections implement the gate, step by step.
THEOREM BindingsImplementTheGate == HkSpec => ImplementsGate
<1>1. HkInit => Gate!Init /\ GateShape
  BY GateStart
<1>2. BindInv => CallShapes
  BY DEF BindInv
<1>3. CallShapes /\ GateShape /\ [HkNext]_hkVars => (UNCHANGED hkVars \/ [Gate!Next]_(Gate!vars))
  BY GateStep
<1> QED BY <1>1, <1>2, <1>3, BindStart, BindStep, GateShapeStep, PTL DEF HkSpec, ImplementsGate

\* The theorems about the gate, under the same mapping.
GateProofs == INSTANCE ProjectionGateProofs WITH
  Threads <- HkThreads, MaxEdits <- HkMaxEdits, version <- edits,
  requested <- gate.requested, completed <- gate.completed, running <- gate.running,
  last <- gate.last, notified <- gate.notified,
  pc <- [t \in HkThreads |->
          CASE call[t].pc \in {"lookup", "check", "commit"} -> "idle"
            [] call[t].pc \in {"page", "stage"} -> "publish"
            [] OTHER -> call[t].pc],
  mine <- [t \in HkThreads |-> call[t].mine],
  generation <- [t \in HkThreads |-> call[t].generation],
  target <- [t \in HkThreads |-> call[t].target],
  seen <- [t \in HkThreads |-> call[t].seen],
  result <- [t \in HkThreads |-> call[t].result]

LEMMA SameGate ==
  /\ Gate!Init <=> GateProofs!Init
  /\ [Gate!Next]_(Gate!vars) <=> [GateProofs!Next]_(GateProofs!vars)
BY DEF Gate!Init, GateProofs!Init, Gate!NoOutcome, GateProofs!NoOutcome,
  Gate!Next, GateProofs!Next, Gate!vars, GateProofs!vars, Gate!gateVars, GateProofs!gateVars,
  Gate!localVars, GateProofs!localVars, Gate!At, GateProofs!At, Gate!Goto, GateProofs!Goto,
  Gate!Edit, GateProofs!Edit, Gate!Enter, GateProofs!Enter, Gate!Project, GateProofs!Project,
  Gate!Publish, GateProofs!Publish, Gate!PublishOutcome, GateProofs!PublishOutcome,
  Gate!Finish, GateProofs!Finish, Gate!RunAgain, GateProofs!RunAgain, Gate!Waiters, GateProofs!Waiters,
  Gate!Wake, GateProofs!Wake, Gate!Return, GateProofs!Return

\* commit_staged takes what stage_many collected: between two pages no other
\* thread may stage.
OneStagesAtATime ==
  \A t, u \in HkThreads :
    {call[t].pc, call[u].pc} \subseteq {"project", "page", "stage", "publish"} => t = u

\* What a command returns is the outcome of a projection that began to read
\* after the command's own commit.
AnswersCoverTheCommit ==
  \A t \in HkThreads : call[t].pc = "done" => call[t].mine <= call[t].result.version

\* Who waits and was not woken yet has a projection under way that will wake it.
WaitersHaveALeader ==
  \A t \in HkThreads : call[t].pc = "wait" /\ t \notin gate.notified => gate.running

\* What is proved of the gate holds of the commands: one thread at a time stages
\* pages in the backend, an answer covers the caller's commit, and nobody waits
\* in vain.
THEOREM CommandsHaveTheGate ==
  HkSpec => []OneStagesAtATime /\ []AnswersCoverTheCommit /\ []WaitersHaveALeader
<1>1. HkMaxEdits \in Nat
  BY HotkeyAssumption
<1>2. GateProofs!Spec => /\ []GateProofs!OneProjection
                         /\ []GateProofs!ReturnIsCovered
                         /\ []GateProofs!NoLostWakeup
  BY <1>1, GateProofs!ProjectionsAreExclusive, GateProofs!AnswersCoverTheEdit,
     GateProofs!WakeupsAreNotLost, PTL
<1>3. HkInit => GateProofs!Init /\ GateShape
  BY GateStart, SameGate
<1>4. BindInv => CallShapes
  BY DEF BindInv
<1>5. CallShapes /\ GateShape /\ [HkNext]_hkVars => [GateProofs!Next]_(GateProofs!vars)
  BY GateStep, SameGate
<1>6. GateProofs!OneProjection => OneStagesAtATime
  BY DEF GateProofs!OneProjection, GateProofs!Leading, OneStagesAtATime
<1>7. GateProofs!ReturnIsCovered => AnswersCoverTheCommit
  BY DEF GateProofs!ReturnIsCovered, GateProofs!At, AnswersCoverTheCommit
<1>8. GateProofs!NoLostWakeup => WaitersHaveALeader
  BY DEF GateProofs!NoLostWakeup, GateProofs!At, WaitersHaveALeader
<1> QED BY <1>2, <1>3, <1>4, <1>5, <1>6, <1>7, <1>8, BindStart, BindStep, GateShapeStep, PTL
        DEF HkSpec, GateProofs!Spec

(***************************************************************************)
(* The backend follows the table.                                          *)
(*                                                                         *)
(* Read page by page, with the last id of a page as the next one's start,  *)
(* the bindings that stand for their keys come out complete, each key with *)
(* its one binding; who commits meanwhile is behind a later projection.    *)
(***************************************************************************)

\* What a function of keys says of the bindings the backend is to be told of.
Tells(f, bindings) ==
  DOMAIN f = {b.key : b \in bindings} /\ \A b \in bindings : f[b.key] = b.id
UpTo(id) == {b \in Wanted : b.id <= id}
Beyond(id) == {b \in Wanted : b.id > id}

\* What the gate's theorems say of a command on its way.
InProjection == {"project", "page", "stage", "publish"}
GateKnows ==
  /\ OneStagesAtATime
  /\ gate.requested \in Nat
  /\ \A t \in HkThreads : call[t].target \in 0 .. gate.requested
  /\ gate.running <=> \E t \in HkThreads : call[t].pc \in InProjection

\* An id has one binding.
TableTypes ==
  /\ \A b \in table : b.id \in HkIds
  /\ \A a, b \in table : a.id = b.id => a = b

\* The ids that commands and projections carry along.
IdsCarried ==
  \A t \in HkThreads :
    /\ call[t].pc \in {"check", "commit"} => call[t].id \in HkIds
    /\ call[t].pc = "page" => call[t].after \in HkIds

\* Nothing has happened to the table since the projection began that another
\* one will not see.
Steady == ~drifted /\ \A t \in HkThreads : call[t].pc # "call"

\* What one projection has done so far, if no other follows it.
ProjectionGoesOn(t) ==
  Steady /\ gate.requested = call[t].target /\ ~call[t].error =>
    /\ call[t].pc = "page" => Tells(staged, UpTo(call[t].after))
    /\ call[t].pc = "stage" => Tells(staged, Wanted)
    /\ call[t].pc = "publish" => Tells(registered, Wanted)

\* And what the last has left.
ProjectionLasts ==
  Steady /\ gate.last.ok /\ (\A t \in HkThreads : call[t].pc \notin InProjection) =>
    Tells(registered, Wanted)

\* A backend is there with the first page that has a binding.
NoBackend == ~backend => registered = Nothing /\ staged = Nothing

FollowInv ==
  /\ TableTypes /\ IdsCarried /\ NoBackend /\ ProjectionLasts
  /\ \A t \in HkThreads : ProjectionGoesOn(t)

\* A set of numbers has a least one.
LEMMA HkLeastExists ==
  ASSUME NEW S \in SUBSET Nat, S # {}
  PROVE  \E m \in S : \A n \in S : m <= n
<1> DEFINE Below == {ss \in Nat \X Nat : ss[1] < ss[2]}
<1>1. IsWellFoundedOn(Below, Nat)
  BY NatLessThanWellFounded DEF OpToRel
<1>2. \A n, m \in Nat : n < m => <<n, m>> \in Below
  OBVIOUS
<1> HIDE DEF Below
<1>3. PICK m \in S : \A n \in S : ~(<<n, m>> \in Below)
  BY <1>1, WFMin
<1>4. \A n \in S : ~(n < m)
  BY <1>2, <1>3
<1> QED BY <1>4

\* The ids in the order of their strings.
LEMMA IdsAre == HkIds = {1, 2, 3, 4}
BY DEF HkIds, SoundIds, ControlId, TabId

\* Every key of a live binding has one binding that stands for it, a control's
\* where there is one.
LEMMA KeysAreRepresented ==
  ASSUME TableTypes
  PROVE  /\ Wanted \subseteq LiveBindings
         /\ \A b \in LiveBindings : \E c \in Wanted : c.key = b.key
         /\ \A b, c \in Wanted : b.key = c.key => b = c
         /\ \A b \in Wanted, c \in LiveBindings :
              b.key = c.key /\ c.owner = "control" => b.owner = "control"
<1>1. \A b \in LiveBindings : b \in table /\ LiveBinding(b) /\ b.id \in {1, 2, 3, 4}
  BY IdsAre DEF LiveBindings, TableTypes
<1>2. \A a, b \in LiveBindings : a.id = b.id => a = b
  BY <1>1 DEF TableTypes
<1>3. \A b : b \in Wanted <=>
        /\ b \in LiveBindings
        /\ \A c \in LiveBindings \ {b} :
             c.key = b.key => Rank(b) < Rank(c) \/ (Rank(b) = Rank(c) /\ b.id < c.id)
  BY DEF Wanted, Represents, LiveBindings
<1>4. \A b : Rank(b) \in {0, 1, 2} /\ (Rank(b) = 0 <=> b.owner = "control")
  BY DEF Rank
<1>5. \A b \in LiveBindings : \E c \in Wanted : c.key = b.key
  <2> SUFFICES ASSUME NEW b \in LiveBindings PROVE \E c \in Wanted : c.key = b.key
    OBVIOUS
  <2> DEFINE same == {c \in LiveBindings : c.key = b.key}
             Weight(c) == 5 * Rank(c) + c.id
             S == {Weight(c) : c \in same}
  <2>1. \A c \in same : Weight(c) \in Nat
    BY <1>1, <1>4
  <2>2. S \in SUBSET Nat /\ S # {}
    BY <2>1
  <2>3. PICK m \in S : \A n \in S : m <= n
    BY <2>2, HkLeastExists
  <2>4. PICK c \in same : m = Weight(c)
    BY <2>3
  <2>5. ASSUME NEW d \in LiveBindings \ {c}, d.key = c.key
        PROVE  Rank(c) < Rank(d) \/ (Rank(c) = Rank(d) /\ c.id < d.id)
    <3>1. 5 * Rank(c) + c.id <= 5 * Rank(d) + d.id
      BY <2>3, <2>4, <2>5
    <3>2. c.id # d.id /\ c.id \in {1, 2, 3, 4} /\ d.id \in {1, 2, 3, 4}
      BY <1>1, <1>2, <2>5
    <3>3. Rank(c) \in {0, 1, 2} /\ Rank(d) \in {0, 1, 2}
      BY <1>4
    <3> HIDE DEF same, S, Weight
    <3> QED BY <3>1, <3>2, <3>3
  <2> QED BY <1>3, <2>4, <2>5
<1>6. ASSUME NEW b \in Wanted, NEW c \in Wanted, b.key = c.key PROVE b = c
  <2>1. b \in LiveBindings /\ c \in LiveBindings
    BY <1>3
  <2>2. CASE b # c
    <3>1. /\ Rank(b) < Rank(c) \/ (Rank(b) = Rank(c) /\ b.id < c.id)
          /\ Rank(c) < Rank(b) \/ (Rank(c) = Rank(b) /\ c.id < b.id)
      BY <1>3, <1>6, <2>1, <2>2
    <3>2. /\ Rank(b) \in {0, 1, 2} /\ Rank(c) \in {0, 1, 2}
          /\ b.id \in {1, 2, 3, 4} /\ c.id \in {1, 2, 3, 4}
      BY <1>1, <1>4, <2>1
    <3> QED BY <3>1, <3>2
  <2> QED BY <2>2
<1>7. ASSUME NEW b \in Wanted, NEW c \in LiveBindings, b.key = c.key, c.owner = "control"
      PROVE  b.owner = "control"
  <2>1. CASE b # c
    <3>1. Rank(b) < Rank(c) \/ (Rank(b) = Rank(c) /\ b.id < c.id)
      BY <1>3, <1>7, <2>1
    <3>2. Rank(b) \in {0, 1, 2} /\ Rank(c) = 0
      BY <1>4, <1>7
    <3>3. Rank(b) = 0
      BY <3>1, <3>2
    <3> QED BY <1>4, <3>3
  <2> QED BY <1>7, <2>1
<1> QED BY <1>3, <1>5, <1>6, <1>7

\* There are no more bindings than ids.
LEMMA WantedIsFinite ==
  ASSUME TableTypes, NEW S \in SUBSET Wanted
  PROVE  IsFiniteSet(S) /\ Cardinality(S) \in Nat
<1>1. S \subseteq table
  BY DEF Wanted
<1> DEFINE f == [b \in S |-> b.id]
<1>2. f \in Injection(S, HkIds)
  <2>1. f \in [S -> HkIds]
    BY <1>1 DEF TableTypes
  <2>2. \A a, b \in S : f[a] = f[b] => a = b
    BY <1>1 DEF TableTypes
  <2> HIDE DEF f
  <2> QED BY <2>1, <2>2 DEF Injection, IsInjective
<1>3. IsFiniteSet({1, 2, 3, 4})
  <2>1. PICK a \in Int, b \in Int : a = 1 /\ b = 4
    OBVIOUS
  <2>2. {1, 2, 3, 4} = a .. b
    BY <2>1
  <2> QED BY <2>2, FS_Interval
<1>4. IsFiniteSet(S)
  BY <1>2, <1>3, IdsAre, FS_Injection
<1> QED BY <1>4, FS_CardinalityType

\* Fewer of the wanted bindings are no more.
LEMMA SmallerIsSmaller ==
  ASSUME TableTypes, NEW S \in SUBSET Wanted, NEW R \in SUBSET S
  PROVE  Cardinality(R) <= Cardinality(S)
<1>1. IsFiniteSet(S)
  BY WantedIsFinite
<1> QED BY <1>1, FS_Subset

\* A page is the next rows in order: all of them, if it is not full, and those
\* up to its last one otherwise.
LEMMA PageIs ==
  ASSUME TableTypes, NEW after \in Nat
  PROVE  LET page == PageAfter(after)
         IN  /\ page \subseteq Beyond(after)
             /\ Finished(page) => page = Beyond(after)
             /\ ~Finished(page) =>
                  /\ LastOf(page) \in page
                  /\ page = {b \in Beyond(after) : b.id <= LastOf(page).id}
<1> DEFINE rows == Beyond(after)
           Before(b) == {a \in rows : a.id < b.id}
           page == PageAfter(after)
<1>1. page = {b \in rows : Cardinality(Before(b)) < HkPageSize}
  BY DEF PageAfter, Beyond
<1>2. rows \subseteq Wanted /\ \A b \in Wanted : b \in table /\ b.id \in {1, 2, 3, 4}
  BY IdsAre DEF Beyond, Wanted, TableTypes
<1>3. HkPageSize \in Nat \ {0}
  BY HotkeyAssumption
<1>4. \A b : Before(b) \in SUBSET Wanted
  BY <1>2
<1>5. page \in SUBSET Wanted /\ page \subseteq rows
  BY <1>1, <1>2
<1> HIDE DEF page, rows
<1>6. ASSUME Finished(page) PROVE page = rows
  <2> SUFFICES ASSUME rows \ page # {} PROVE FALSE
    BY <1>5
  <2> DEFINE S == {b.id : b \in rows \ page}
  <2>1. S \in SUBSET Nat /\ S # {}
    BY <1>2
  <2>2. PICK m \in S : \A n \in S : m <= n
    BY <2>1, HkLeastExists
  <2>3. PICK b \in rows \ page : m = b.id
    BY <2>2
  <2>4. ASSUME NEW a \in Before(b) PROVE a \in page
    <3>1. a \in rows /\ a.id < b.id
      OBVIOUS
    <3>2. CASE a \notin page
      <4>1. b.id <= a.id
        BY <2>2, <2>3, <3>1, <3>2
      <4>2. a.id \in {1, 2, 3, 4} /\ b.id \in {1, 2, 3, 4}
        BY <1>2, <3>1
      <4> QED BY <3>1, <4>1, <4>2
    <3> QED BY <3>2
  <2>5. Before(b) \in SUBSET page
    BY <2>4
  <2> HIDE DEF Before
  <2>6. Cardinality(Before(b)) <= Cardinality(page)
    BY <1>5, <2>5, SmallerIsSmaller
  <2>7. Cardinality(Before(b)) \in Nat /\ Cardinality(page) \in Nat
    BY <1>4, <1>5, WantedIsFinite
  <2>8. ~(Cardinality(Before(b)) < HkPageSize)
    BY <1>1, <2>3
  <2> QED BY <1>3, <1>6, <2>6, <2>7, <2>8 DEF Finished
<1>7. ASSUME ~Finished(page)
      PROVE  LastOf(page) \in page /\ page = {b \in rows : b.id <= LastOf(page).id}
  <2>1. page # {}
    BY <1>3, <1>7, FS_EmptySet DEF Finished
  <2> DEFINE S == {5 - b.id : b \in page}
  <2>2. S \in SUBSET Nat /\ S # {}
    BY <1>2, <1>5, <2>1
  <2>3. PICK m \in S : \A n \in S : m <= n
    BY <2>2, HkLeastExists
  <2>4. PICK c \in page : m = 5 - c.id
    BY <2>3
  <2>5. \A a \in page : a.id <= c.id
    <3> SUFFICES ASSUME NEW a \in page PROVE a.id <= c.id
      OBVIOUS
    <3>1. 5 - c.id <= 5 - a.id
      BY <2>3, <2>4
    <3>2. a.id \in {1, 2, 3, 4} /\ c.id \in {1, 2, 3, 4}
      BY <1>2, <1>5
    <3> QED BY <3>1, <3>2
  <2> HIDE DEF S
  <2>6. LastOf(page) \in page /\ \A a \in page : a.id <= LastOf(page).id
    BY <2>5 DEF LastOf
  <2> DEFINE z == LastOf(page)
  <2>7. z \in page /\ \A a \in page : a.id <= z.id
    BY <2>6
  <2> HIDE DEF z
  <2>8. ASSUME NEW b \in rows, b.id <= z.id PROVE b \in page
    <3>1. b.id \in {1, 2, 3, 4} /\ z.id \in {1, 2, 3, 4}
      BY <1>2, <1>5, <2>7
    <3>2. \A a \in Before(b) : a.id \in {1, 2, 3, 4}
      BY <1>2
    <3>3. Before(b) \in SUBSET Before(z)
      BY <2>8, <3>1, <3>2
    <3> HIDE DEF Before
    <3>4. Cardinality(Before(b)) <= Cardinality(Before(z))
      BY <1>4, <3>3, SmallerIsSmaller
    <3>5. Cardinality(Before(b)) \in Nat /\ Cardinality(Before(z)) \in Nat
      BY <1>4, WantedIsFinite
    <3>6. Cardinality(Before(z)) < HkPageSize
      BY <1>1, <2>7
    <3>7. Cardinality(Before(b)) < HkPageSize
      BY <1>3, <3>4, <3>5, <3>6
    <3> QED BY <1>1, <3>7
  <2>9. page = {b \in rows : b.id <= z.id}
    BY <1>5, <2>7, <2>8
  <2> QED BY <2>7, <2>9 DEF z
<1> QED BY <1>5, <1>6, <1>7 DEF page, rows

\* What is staged of one page after another is told in full: no two of them
\* have the same key.
LEMMA StagedIsTold ==
  ASSUME TableTypes, NEW f, NEW done \in SUBSET Wanted, NEW page \in SUBSET Wanted, Tells(f, done)
  PROVE  Tells(Stage(f, page).staged, done \cup page)
<1>1. \A b, c \in Wanted : b.key = c.key => b = c
  BY KeysAreRepresented
<1> DEFINE clashes(b) == b.key \in DOMAIN f /\ f[b.key] # b.id
           taken == {b \in page : \A a \in page : clashes(a) => b.id < a.id}
           told == [k \in DOMAIN f \cup {b.key : b \in taken} |->
                      IF k \in DOMAIN f THEN f[k] ELSE (CHOOSE b \in taken : b.key = k).id]
<1>2. Stage(f, page).staged = told
  BY DEF Stage
<1>3. \A b \in page : ~clashes(b)
  BY <1>1 DEF Tells
<1>4. taken = page
  BY <1>3
<1> HIDE DEF taken, clashes
<1>5. DOMAIN told = {b.key : b \in done \cup page}
  BY <1>4 DEF Tells
<1>6. ASSUME NEW b \in done \cup page PROVE told[b.key] = b.id
  <2>1. CASE b.key \in DOMAIN f
    <3>1. PICK c \in done : c.key = b.key
      BY <2>1 DEF Tells
    <3>2. c = b
      BY <1>1, <3>1
    <3> QED BY <2>1, <3>1, <3>2 DEF Tells
  <2>2. CASE b.key \notin DOMAIN f
    <3>1. b \in page
      BY <2>2 DEF Tells
    <3>2. (CHOOSE c \in page : c.key = b.key) = b
      BY <1>1, <3>1
    <3> QED BY <1>4, <2>2, <3>1, <3>2
  <2> QED BY <2>1, <2>2
<1> HIDE DEF told
<1>7. Tells(told, done \cup page)
  BY <1>5, <1>6 DEF Tells
<1> QED BY <1>2, <1>7

(***************************************************************************)
(* The steps.                                                              *)
(***************************************************************************)
\* At first a projection is to come.
LEMMA FollowInit == HkInit => FollowInv
<1> SUFFICES ASSUME HkInit PROVE FollowInv
  OBVIOUS
<1> USE DEF HkInit
<1>1. \A t \in HkThreads : call[t] = IdleCall
  OBVIOUS
<1>2. TableTypes
  BY DEF TableTypes, HkIds
<1>3. IdsCarried
  BY <1>1 DEF IdsCarried, IdleCall
<1>4. NoBackend
  BY DEF NoBackend
<1>5. ~Steady
  BY DEF Steady
<1> QED BY <1>2, <1>3, <1>4, <1>5 DEF FollowInv, ProjectionLasts, ProjectionGoesOn

\* The same bindings stand for their keys.
LEMMA SameWanted ==
  ASSUME UNCHANGED <<table, unlisted>>
  PROVE  Wanted' = Wanted /\ (TableTypes => TableTypes')
BY DEF Wanted, Represents, LiveBindings, LiveBinding, TableTypes

\* A step of a thread outside the projections, before its commit or after its
\* answer.
LEMMA OutsideFollows ==
  ASSUME FollowInv, NEW t \in HkThreads, NEW new,
         call'[t] = new, \A u \in HkThreads \ {t} : call'[u] = call[u],
         UNCHANGED <<table, unlisted, registered, backend, staged, drifted>>,
         gate'.requested = gate.requested, gate'.last = gate.last,
         call[t].pc \notin InProjection \cup {"call"}, new.pc \notin InProjection,
         new.pc \in {"check", "commit"} => new.id \in HkIds
  PROVE  FollowInv'
<1>1. call'[t] = new /\ \A u \in HkThreads \ {t} : call'[u] = call[u]
  OBVIOUS
<1>2. Wanted' = Wanted /\ TableTypes'
  BY SameWanted DEF FollowInv
<1>3. IdsCarried'
  BY <1>1 DEF IdsCarried, FollowInv, InProjection
<1>4. NoBackend'
  BY DEF NoBackend, FollowInv
<1>5. Steady' => Steady
  BY <1>1 DEF Steady
<1>6. ProjectionLasts'
  BY <1>1, <1>2, <1>5 DEF ProjectionLasts, FollowInv, Tells
<1>7. ASSUME NEW u \in HkThreads PROVE ProjectionGoesOn(u)'
  <2>1. CASE u = t
    BY <1>1, <2>1 DEF ProjectionGoesOn, InProjection
  <2>2. CASE u # t
    BY <1>1, <1>2, <1>5, <2>2 DEF ProjectionGoesOn, FollowInv, Tells, UpTo
  <2> QED BY <2>1, <2>2
<1> QED BY <1>2, <1>3, <1>4, <1>6, <1>7 DEF FollowInv

LEMMA BeginFollows ==
  ASSUME CallShapes, FollowInv, NEW t \in HkThreads, HkBegin(t) PROVE FollowInv'
<1>1. PICK o \in HkOwners, k \in HkKeys \cup {HkNone}, share \in BOOLEAN, scope \in {HkNone, HkTab} :
        Step(t, [call[t] EXCEPT
                   !.pc = IF o \in HkSounds THEN "lookup" ELSE "check",
                   !.id = IF o \in HkSounds THEN 0 ELSE FixedId(o),
                   !.command = [owner |-> o, key |-> k, scope |-> scope, share |-> share]])
  BY DEF HkBegin
<1> DEFINE command == [owner |-> o, key |-> k, scope |-> scope, share |-> share]
           place == IF o \in HkSounds THEN "lookup" ELSE "check"
           id == IF o \in HkSounds THEN 0 ELSE FixedId(o)
           new == [call[t] EXCEPT !.pc = place, !.id = id, !.command = command]
<1>2. CallShape(call[t])
  BY DEF CallShapes
<1>3. place \in {"lookup", "check"} /\ (place = "check" => id \in HkIds)
  BY DEF FixedId, HkIds
<1>4. Step(t, new)
  BY <1>1
<1> HIDE DEF place, id, command
<1>5. CallShape(new) /\ new.pc = place /\ new.id = id
  BY <1>2, <1>3 DEF CallShape, CallFields, CallPlaces
<1> HIDE DEF new
<1>6. /\ call[t].pc = "idle"
      /\ UNCHANGED <<table, unlisted, registered, backend, staged, gate, drifted>>
  BY DEF HkBegin, HkAt
<1>7. new.pc \notin InProjection
  BY <1>3, <1>5 DEF InProjection
<1>8. new.pc \in {"check", "commit"} => new.id \in HkIds
  BY <1>3, <1>5
<1>9. call[t].pc \notin InProjection \cup {"call"}
  BY <1>6 DEF InProjection
<1> QED BY <1>4, <1>5, <1>6, <1>7, <1>8, <1>9, OutsideFollows, StepIs

LEMMA LookupFollows ==
  ASSUME CallShapes, FollowInv, NEW t \in HkThreads, HkLookup(t) PROVE FollowInv'
<1>1. PICK id \in HkIds : Step(t, [call[t] EXCEPT !.pc = "check", !.id = id])
  <2>1. SoundIds \subseteq HkIds /\ \A b \in table : b.id \in HkIds
    BY DEF HkIds, FollowInv, TableTypes
  <2> QED BY <2>1 DEF HkLookup
<1> DEFINE new == [call[t] EXCEPT !.pc = "check", !.id = id]
<1>2. CallShape(call[t]) /\ Step(t, new)
  BY <1>1 DEF CallShapes
<1>3. CallShape(new) /\ new.pc = "check" /\ new.id = id
  BY <1>2 DEF CallShape, CallFields, CallPlaces
<1> HIDE DEF new
<1>4. /\ call[t].pc = "lookup"
      /\ UNCHANGED <<table, unlisted, registered, backend, staged, gate, drifted>>
  BY DEF HkLookup, HkAt
<1>5. call[t].pc \notin InProjection \cup {"call"} /\ new.pc \notin InProjection
  BY <1>3, <1>4 DEF InProjection
<1> QED BY <1>2, <1>3, <1>4, <1>5, OutsideFollows, StepIs

LEMMA CheckFollows ==
  ASSUME CallShapes, FollowInv, NEW t \in HkThreads, HkCheck(t) PROVE FollowInv'
<1>1. PICK new \in {[Forget(call[t]) EXCEPT !.pc = "idle"], [call[t] EXCEPT !.pc = "commit"]} : Step(t, new)
  BY DEF HkCheck
<1>2. CallShape(call[t])
  BY DEF CallShapes
<1>3. /\ call[t].pc = "check"
      /\ UNCHANGED <<table, unlisted, registered, backend, staged, gate, drifted>>
  BY DEF HkCheck, HkAt
<1>4. CallShape(new) /\ (new.pc = "idle" \/ (new.pc = "commit" /\ new.id = call[t].id))
  BY <1>2 DEF CallShape, CallFields, CallPlaces, Forget
<1>5. call[t].pc \notin InProjection \cup {"call"} /\ new.pc \notin InProjection
  BY <1>3, <1>4 DEF InProjection
<1>6. new.pc \in {"check", "commit"} => new.id \in HkIds
  BY <1>3, <1>4 DEF FollowInv, IdsCarried
<1> QED BY <1>1, <1>3, <1>4, <1>5, <1>6, OutsideFollows, StepIs

LEMMA ReturnFollows ==
  ASSUME CallShapes, FollowInv, NEW t \in HkThreads, HkReturn(t) PROVE FollowInv'
<1> DEFINE new == [call[t] EXCEPT !.pc = "idle"]
<1>1. CallShape(call[t]) /\ Step(t, new)
  BY DEF CallShapes, HkReturn
<1>2. CallShape(new) /\ new.pc = "idle"
  BY <1>1 DEF CallShape, CallFields, CallPlaces
<1> HIDE DEF new
<1>3. /\ call[t].pc = "done"
      /\ UNCHANGED <<table, unlisted, registered, backend, staged, gate, drifted>>
  BY DEF HkReturn, HkAt
<1>4. call[t].pc \notin InProjection \cup {"call"} /\ new.pc \notin InProjection
  BY <1>2, <1>3 DEF InProjection
<1> QED BY <1>1, <1>2, <1>3, <1>4, OutsideFollows, StepIs

LEMMA WakeFollows ==
  ASSUME CallShapes, GateShape, FollowInv, NEW t \in HkThreads, HkWake(t) PROVE FollowInv'
<1>1. /\ call[t].pc = "wait"
      /\ UNCHANGED <<table, unlisted, registered, backend, staged, drifted>>
      /\ gate' = [gate EXCEPT !.notified = @ \ {t}]
  BY DEF HkWake, HkAt
<1>2. gate'.requested = gate.requested /\ gate'.last = gate.last
  BY <1>1 DEF GateShape, GateFields
<1>3. CallShape(call[t])
  BY DEF CallShapes
<1>4. call[t].pc \notin InProjection \cup {"call"}
  BY <1>1 DEF InProjection
<1>5. PICK new \in {call[t], [call[t] EXCEPT !.pc = "done", !.result = gate.last]} :
        call'[t] = new /\ \A u \in HkThreads \ {t} : call'[u] = call[u]
  <2> DEFINE new == [call[t] EXCEPT !.pc = "done", !.result = gate.last]
  <2>1. CASE UNCHANGED call
    BY <2>1
  <2>2. CASE Step(t, new)
    <3>1. CallShape(new)
      BY <1>3 DEF CallShape, CallFields, CallPlaces
    <3> HIDE DEF new
    <3> QED BY <2>2, <3>1, StepIs DEF new
  <2> QED BY <2>1, <2>2 DEF HkWake
<1>6. CallShape(new) /\ new.pc \in {"wait", "done"}
  BY <1>1, <1>3 DEF CallShape, CallFields, CallPlaces
<1>7. new.pc \notin InProjection /\ new.pc \notin {"check", "commit"}
  BY <1>6 DEF InProjection
<1> QED BY <1>1, <1>2, <1>4, <1>5, <1>7, OutsideFollows

\* A commit makes room for a new binding; its projection is to come.
LEMMA CommitFollows ==
  ASSUME CallShapes, FollowInv, NEW t \in HkThreads, HkCommit(t) PROVE FollowInv'
<1> DEFINE new == [Forget(call[t]) EXCEPT !.pc = "call", !.mine = edits']
           c == call[t].command
           id == call[t].id
           row == [id |-> id, owner |-> c.owner, scope |-> c.scope, key |-> c.key]
<1>1. CallShape(call[t]) /\ Step(t, new)
  BY DEF CallShapes, HkCommit
<1>2. CallShape(new) /\ new.pc = "call"
  BY <1>1 DEF CallShape, CallFields, CallPlaces, Forget
<1> HIDE DEF new
<1>3. /\ call[t].pc = "commit" /\ table' = Committed(id, c)
      /\ UNCHANGED <<registered, backend, staged>>
  BY DEF HkCommit, HkAt
<1>4. call'[t] = new /\ \A u \in HkThreads \ {t} : call'[u] = call[u]
  BY <1>1, <1>2, StepIs
<1>5. id \in HkIds
  BY <1>3 DEF FollowInv, IdsCarried
<1>6. \A b \in table' : (b \in table /\ b.id # id) \/ b = row
  BY <1>3 DEF Committed
<1>7. TableTypes'
  BY <1>5, <1>6 DEF TableTypes, FollowInv
<1>8. IdsCarried'
  BY <1>2, <1>4 DEF IdsCarried, FollowInv
<1>9. NoBackend'
  BY <1>3 DEF NoBackend, FollowInv
<1>10. ~Steady'
  BY <1>2, <1>4 DEF Steady
<1> QED BY <1>7, <1>8, <1>9, <1>10 DEF FollowInv, ProjectionLasts, ProjectionGoesOn

\* So is one for a folder that is hidden or shown.
LEMMA HideFollows == ASSUME FollowInv, HkHide PROVE FollowInv'
<1>1. drifted' /\ UNCHANGED <<table, registered, backend, staged, call>>
  BY DEF HkHide
<1>2. TableTypes' /\ IdsCarried' /\ NoBackend'
  BY <1>1 DEF FollowInv, TableTypes, IdsCarried, NoBackend
<1>3. ~Steady'
  BY <1>1 DEF Steady
<1> QED BY <1>2, <1>3 DEF FollowInv, ProjectionLasts, ProjectionGoesOn

\* Who enters is behind the projection under way, or begins one.
LEMMA EnterFollows ==
  ASSUME CallShapes, GateShape, GateKnows, FollowInv, NEW t \in HkThreads, HkEnter(t) PROVE FollowInv'
<1>1. /\ call[t].pc = "call"
      /\ UNCHANGED <<table, unlisted, registered, backend, staged, drifted>>
      /\ gate' = [gate EXCEPT !.requested = @ + 1, !.running = TRUE]
  BY DEF HkEnter, HkAt
<1>2. gate'.requested = gate.requested + 1
  BY <1>1 DEF GateShape, GateFields
<1>3. CallShape(call[t])
  BY DEF CallShapes
<1>4. PICK new \in {[call[t] EXCEPT !.pc = "wait", !.generation = gate'.requested],
                    [call[t] EXCEPT !.pc = "project", !.generation = gate'.requested, !.target = gate'.requested]} :
        Step(t, new) /\ (gate.running \/ new.pc = "project")
  <2>1. [call[t] EXCEPT !.pc = "project", !.generation = gate'.requested, !.target = gate'.requested].pc = "project"
    BY <1>3 DEF CallShape, CallFields
  <2> QED BY <2>1 DEF HkEnter
<1>5. CallShape(new) /\ new.pc \in {"wait", "project"}
  BY <1>3 DEF CallShape, CallFields, CallPlaces
<1>6. call'[t] = new /\ \A u \in HkThreads \ {t} : call'[u] = call[u]
  BY <1>4, <1>5, StepIs
<1>7. TableTypes'
  BY <1>1, SameWanted DEF FollowInv
<1>8. IdsCarried' /\ NoBackend'
  BY <1>1, <1>5, <1>6 DEF FollowInv, IdsCarried, NoBackend
<1>9. \E u \in HkThreads : call'[u].pc \in InProjection
  <2>1. CASE gate.running
    <3>1. PICK u \in HkThreads : call[u].pc \in InProjection
      BY <2>1 DEF GateKnows
    <3>2. u # t
      BY <1>1, <3>1 DEF InProjection
    <3> QED BY <1>6, <3>1, <3>2
  <2>2. CASE new.pc = "project"
    BY <1>6, <2>2 DEF InProjection
  <2> QED BY <1>4, <2>1, <2>2
<1>10. ProjectionLasts'
  BY <1>9 DEF ProjectionLasts
<1>11. ASSUME NEW u \in HkThreads PROVE ProjectionGoesOn(u)'
  <2>1. CASE u = t
    BY <1>5, <1>6, <2>1 DEF ProjectionGoesOn
  <2>2. CASE u # t
    <3>1. call'[u].target \in 0 .. gate.requested /\ gate.requested \in Nat
      BY <1>6, <2>2 DEF GateKnows
    <3>2. gate'.requested # call'[u].target
      BY <1>2, <3>1
    <3> QED BY <3>2 DEF ProjectionGoesOn
  <2> QED BY <2>1, <2>2
<1> QED BY <1>7, <1>8, <1>10, <1>11 DEF FollowInv

\* A step of the one thread that projects and that stays in its projection, for
\* which the claims are to be shown.
LEMMA ProjectingFollows ==
  ASSUME CallShapes, GateKnows, FollowInv, NEW t \in HkThreads, NEW new, CallShape(new), Step(t, new),
         UNCHANGED <<table, unlisted>>,
         call[t].pc \in InProjection, new.pc \in InProjection,
         new.pc = "page" => new.after \in HkIds,
         NoBackend', ProjectionGoesOn(t)'
  PROVE  FollowInv'
<1>1. call'[t] = new /\ \A u \in HkThreads \ {t} : call'[u] = call[u]
  BY StepIs
<1>2. TableTypes'
  BY SameWanted DEF FollowInv
<1>3. IdsCarried'
  BY <1>1 DEF IdsCarried, FollowInv, InProjection
<1>4. ProjectionLasts'
  BY <1>1 DEF ProjectionLasts
<1>5. ASSUME NEW u \in HkThreads, u # t PROVE ProjectionGoesOn(u)'
  <2>1. call[u].pc \notin InProjection
    BY <1>5 DEF GateKnows, OneStagesAtATime, InProjection
  <2> QED BY <1>1, <1>5, <2>1 DEF ProjectionGoesOn, InProjection
<1> QED BY <1>2, <1>3, <1>4, <1>5 DEF FollowInv

\* What a page adds to the bindings up to where it began.
LEMMA PageGoesOn ==
  ASSUME TableTypes, NEW f, NEW after \in Nat, NEW page, page = PageAfter(after), Tells(f, UpTo(after))
  PROVE  /\ Finished(page) => Tells(Stage(f, page).staged, Wanted)
         /\ ~Finished(page) => /\ LastOf(page).id \in HkIds
                               /\ Tells(Stage(f, page).staged, UpTo(LastOf(page).id))
<1>1. /\ page \subseteq Beyond(after)
      /\ Finished(page) => page = Beyond(after)
      /\ ~Finished(page) => /\ LastOf(page) \in page
                            /\ page = {b \in Beyond(after) : b.id <= LastOf(page).id}
  BY PageIs
<1>2. \A b \in Wanted : b.id \in {1, 2, 3, 4}
  BY IdsAre DEF Wanted, TableTypes
<1>3. UpTo(after) \in SUBSET Wanted /\ page \in SUBSET Wanted
  BY <1>1 DEF UpTo, Beyond
<1>4. Tells(Stage(f, page).staged, UpTo(after) \cup page)
  BY <1>3, StagedIsTold
<1>5. UpTo(after) \cup Beyond(after) = Wanted
  BY <1>2 DEF UpTo, Beyond
<1>6. Finished(page) => Tells(Stage(f, page).staged, Wanted)
  BY <1>1, <1>4, <1>5
<1>7. ASSUME ~Finished(page)
      PROVE  LastOf(page).id \in HkIds /\ Tells(Stage(f, page).staged, UpTo(LastOf(page).id))
  <2> DEFINE z == LastOf(page).id
  <2>1. z \in {1, 2, 3, 4} /\ z > after
    BY <1>1, <1>2, <1>3, <1>7 DEF Beyond
  <2>2. page = {b \in Beyond(after) : b.id <= z}
    BY <1>1, <1>7
  <2> HIDE DEF z
  <2>3. UpTo(after) \cup page = UpTo(z)
    BY <1>2, <2>1, <2>2 DEF UpTo, Beyond
  <2>4. z \in HkIds
    BY <2>1, IdsAre
  <2> QED BY <1>4, <2>3, <2>4 DEF z
<1> QED BY <1>6, <1>7

\* An empty page stages nothing.
LEMMA NothingIsStaged == Stage(Nothing, {}).staged = Nothing
<1>1. Stage(Nothing, {}).staged =
        [k \in DOMAIN Nothing \cup {b.key : b \in {}} |-> Nothing[k]]
  BY DEF Stage, Nothing
<1> QED BY <1>1 DEF Nothing

\* A page is staged on those before it.
LEMMA ReadPageFollows ==
  ASSUME CallShapes, GateKnows, FollowInv, NEW t \in HkThreads, HkReadPage(t) PROVE FollowInv'
<1> DEFINE first == HkAt(t, "project")
           after == IF first THEN 0 ELSE call[t].after
           begun == IF first THEN Nothing ELSE staged
           seen  == IF first THEN edits ELSE call[t].seen
           page  == PageAfter(after)
           read  == Stage(begun, page)
           error == read.error \/ (~first /\ call[t].error)
           place == IF Finished(page) THEN "stage" ELSE "page"
           next  == IF Finished(page) THEN 0 ELSE LastOf(page).id
           good  == [call[t] EXCEPT !.pc = place, !.seen = seen, !.error = error, !.after = next]
           bad   == [call[t] EXCEPT !.pc = "publish", !.seen = seen, !.error = TRUE, !.after = 0]
<1>1. CallShape(call[t])
  BY DEF CallShapes
<1>2. /\ call[t].pc \in {"project", "page"} /\ (first <=> call[t].pc = "project")
      /\ drifted' = (drifted /\ ~first)
      /\ UNCHANGED <<table, unlisted, registered, gate>>
  BY DEF HkReadPage, HkAt
<1>3. \/ backend' = (backend \/ page # {}) /\ staged' = read.staged /\ Step(t, good)
      \/ staged' = Nothing /\ Step(t, bad) /\ UNCHANGED backend
  BY DEF HkReadPage
<1>4. /\ CallShape(good) /\ good.pc = place /\ good.error = error /\ good.after = next
      /\ good.target = call[t].target
  <2> HIDE DEF error, next, seen, page
  <2> QED BY <1>1 DEF CallShape, CallFields, CallPlaces
<1>5. CallShape(bad) /\ bad.pc = "publish" /\ bad.error = TRUE
  <2> HIDE DEF seen
  <2> QED BY <1>1 DEF CallShape, CallFields, CallPlaces
<1> HIDE DEF good, bad
<1>6. call[t].pc \in InProjection /\ "publish" \in InProjection /\ place \in InProjection
  BY <1>2 DEF InProjection
<1>7. Wanted' = Wanted /\ TableTypes
  BY <1>2, SameWanted DEF FollowInv
<1>8. ASSUME staged' = Nothing, Step(t, bad), UNCHANGED backend PROVE FollowInv'
  <2>1. call'[t] = bad
    BY <1>5, <1>8, StepIs
  <2>2. NoBackend'
    BY <1>2, <1>8 DEF NoBackend, FollowInv
  <2>3. ProjectionGoesOn(t)'
    BY <1>5, <2>1 DEF ProjectionGoesOn
  <2> QED BY <1>2, <1>5, <1>6, <1>8, <2>2, <2>3, ProjectingFollows
<1>9. ASSUME backend' = (backend \/ page # {}), staged' = read.staged, Step(t, good) PROVE FollowInv'
  <2>1. call'[t] = good /\ \A u \in HkThreads \ {t} : call'[u] = call[u]
    BY <1>4, <1>9, StepIs
  <2>2. after \in Nat
    <3>1. HkIds \subseteq Nat
      BY IdsAre
    <3> QED BY <1>2, <3>1 DEF FollowInv, IdsCarried
  <2>3. NoBackend'
    <3> SUFFICES ASSUME ~backend' PROVE registered' = Nothing /\ staged' = Nothing
      BY DEF NoBackend
    <3>1. ~backend /\ page = {}
      BY <1>9
    <3>2. begun = Nothing /\ registered = Nothing
      BY <3>1 DEF FollowInv, NoBackend
    <3>3. staged' = Stage(Nothing, {}).staged
      BY <1>9, <3>1, <3>2
    <3> QED BY <1>2, <3>2, <3>3, NothingIsStaged
  <2>4. ASSUME Steady', gate.requested = call[t].target, ~error
        PROVE  Tells(begun, UpTo(after))
    <3>1. CASE first
      <4>1. \A b \in Wanted : ~(b.id <= 0)
        BY <1>7, IdsAre DEF Wanted, TableTypes
      <4> QED BY <3>1, <4>1 DEF Tells, UpTo, Nothing
    <3>2. CASE ~first
      <4>1. call[t].pc = "page" /\ ~drifted
        BY <1>2, <2>4, <3>2 DEF Steady
      <4>2. Steady
        BY <2>1, <2>4, <4>1 DEF Steady
      <4>3. ~call[t].error
        BY <2>4, <3>2
      <4> QED BY <2>4, <3>2, <4>1, <4>2, <4>3 DEF FollowInv, ProjectionGoesOn
    <3> QED BY <3>1, <3>2
  <2> HIDE DEF after, begun, error
  <2>5. ASSUME Steady', gate.requested = call[t].target, ~error
        PROVE  /\ Finished(page) => Tells(read.staged, Wanted)
               /\ ~Finished(page) => Tells(read.staged, UpTo(LastOf(page).id))
    BY <1>7, <2>2, <2>4, <2>5, PageGoesOn
  <2>6. good.pc = "page" => ~Finished(page) /\ good.after = LastOf(page).id
    BY <1>4
  <2>7. good.pc = "page" => good.after \in HkIds
    <3>1. ~Finished(page) => LastOf(page) \in Beyond(after)
      BY <1>7, <2>2, PageIs
    <3> QED BY <1>7, <2>6, <3>1 DEF Beyond, Wanted, TableTypes
  <2>8. ProjectionGoesOn(t)'
    <3> SUFFICES ASSUME Steady', gate'.requested = good.target, ~good.error
                 PROVE  /\ good.pc = "page" => Tells(staged', UpTo(call[t].after)')
                        /\ good.pc = "stage" => Tells(staged', Wanted')
                        /\ good.pc # "publish"
      BY <1>4, <2>1 DEF ProjectionGoesOn, Tells, UpTo
    <3>1. gate.requested = call[t].target /\ ~error
      BY <1>2, <1>4
    <3>2. UpTo(call[t].after)' = UpTo(good.after)
      BY <1>7, <2>1 DEF UpTo
    <3>3. good.pc = "stage" => Finished(page)
      BY <1>4
    <3> QED BY <1>4, <1>7, <1>9, <2>5, <2>6, <3>1, <3>2, <3>3
  <2> HIDE DEF place, page, read, next
  <2> QED BY <1>2, <1>4, <1>6, <1>9, <2>3, <2>7, <2>8, ProjectingFollows
<1> QED BY <1>3, <1>8, <1>9

\* What is staged becomes what is registered.
LEMMA CommitStagedFollows ==
  ASSUME CallShapes, GateKnows, FollowInv, NEW t \in HkThreads, HkCommitStaged(t) PROVE FollowInv'
<1> DEFINE good == [call[t] EXCEPT !.pc = "publish"]
           bad == [call[t] EXCEPT !.pc = "publish", !.error = TRUE]
<1>1. CallShape(call[t])
  BY DEF CallShapes
<1>2. /\ call[t].pc = "stage" /\ staged' = Nothing
      /\ UNCHANGED <<table, unlisted, backend, gate, drifted>>
  BY DEF HkCommitStaged, HkAt
<1>3. \/ registered' = (IF backend THEN staged ELSE registered) /\ Step(t, good)
      \/ backend /\ Step(t, bad) /\ UNCHANGED registered
  BY DEF HkCommitStaged
<1>4. /\ CallShape(good) /\ good.pc = "publish" /\ good.error = call[t].error
      /\ good.target = call[t].target
  BY <1>1 DEF CallShape, CallFields, CallPlaces
<1>5. CallShape(bad) /\ bad.pc = "publish" /\ bad.error = TRUE
  BY <1>1 DEF CallShape, CallFields, CallPlaces
<1> HIDE DEF good, bad
<1>6. call[t].pc \in InProjection /\ "publish" \in InProjection
  BY <1>2 DEF InProjection
<1>7. Wanted' = Wanted
  BY <1>2, SameWanted
<1>8. ASSUME backend, Step(t, bad), UNCHANGED registered PROVE FollowInv'
  <2>1. call'[t] = bad
    BY <1>5, <1>8, StepIs
  <2>2. NoBackend'
    BY <1>2, <1>8 DEF NoBackend
  <2>3. ProjectionGoesOn(t)'
    BY <1>5, <2>1 DEF ProjectionGoesOn
  <2> QED BY <1>2, <1>5, <1>6, <1>8, <2>2, <2>3, ProjectingFollows
<1>9. ASSUME registered' = (IF backend THEN staged ELSE registered), Step(t, good) PROVE FollowInv'
  <2>1. call'[t] = good /\ \A u \in HkThreads \ {t} : call'[u] = call[u]
    BY <1>4, <1>9, StepIs
  <2>2. NoBackend'
    BY <1>2, <1>9 DEF NoBackend, FollowInv
  <2>3. registered' = staged
    BY <1>9 DEF FollowInv, NoBackend
  <2>4. ProjectionGoesOn(t)'
    <3> SUFFICES ASSUME Steady', gate'.requested = good.target, ~good.error
                 PROVE  Tells(registered', Wanted')
      BY <1>4, <2>1 DEF ProjectionGoesOn, Tells
    <3>1. Steady /\ gate.requested = call[t].target /\ ~call[t].error
      BY <1>2, <1>4, <2>1 DEF Steady
    <3>2. Tells(staged, Wanted)
      BY <1>2, <3>1 DEF FollowInv, ProjectionGoesOn
    <3> QED BY <1>7, <2>3, <3>2
  <2> QED BY <1>2, <1>4, <1>6, <1>9, <2>2, <2>4, ProjectingFollows
<1> QED BY <1>3, <1>8, <1>9

\* The last projection leaves its claim; another one begins anew.
LEMMA PublishFollows ==
  ASSUME CallShapes, GateShape, GateKnows, FollowInv, NEW t \in HkThreads, HkPublish(t)
  PROVE  FollowInv'
<1> DEFINE target == call[t].target
           last == HkOutcome(~call[t].error, call[t].seen)
           ended == [call[t] EXCEPT !.pc = "done", !.result = last]
           again == [call[t] EXCEPT !.pc = "project", !.target = gate.requested]
<1>1. CallShape(call[t])
  BY DEF CallShapes
<1>2. /\ call[t].pc = "publish"
      /\ UNCHANGED <<table, unlisted, registered, backend, staged, drifted>>
  BY DEF HkPublish, HkAt
<1>3. \/ /\ gate.requested = target
         /\ gate' = [gate EXCEPT !.completed = target, !.running = FALSE, !.last = last,
                                 !.notified = {u \in HkThreads : HkAt(u, "wait")}]
         /\ Step(t, ended)
      \/ Step(t, again)
  BY DEF HkPublish
<1>4. last.ok = ~call[t].error
  BY DEF HkOutcome
<1> HIDE DEF last
<1>5. CallShape(ended) /\ ended.pc = "done"
  BY <1>1 DEF CallShape, CallFields, CallPlaces
<1>6. CallShape(again) /\ again.pc = "project"
  BY <1>1 DEF CallShape, CallFields, CallPlaces
<1> HIDE DEF ended, again
<1>7. call[t].pc \in InProjection /\ "project" \in InProjection
  BY <1>2 DEF InProjection
<1>8. NoBackend' /\ TableTypes' /\ Wanted' = Wanted
  BY <1>2, SameWanted DEF NoBackend, FollowInv
<1>9. CASE Step(t, again)
  <2>1. call'[t] = again
    BY <1>6, <1>9, StepIs
  <2>2. ProjectionGoesOn(t)'
    BY <1>6, <2>1 DEF ProjectionGoesOn
  <2> QED BY <1>2, <1>6, <1>7, <1>8, <1>9, <2>2, ProjectingFollows
<1>10. ASSUME gate.requested = target, Step(t, ended),
              gate' = [gate EXCEPT !.completed = target, !.running = FALSE, !.last = last,
                                   !.notified = {u \in HkThreads : HkAt(u, "wait")}]
       PROVE  FollowInv'
  <2>1. call'[t] = ended /\ \A u \in HkThreads \ {t} : call'[u] = call[u]
    BY <1>5, <1>10, StepIs
  <2>2. gate'.last = last
    BY <1>10 DEF GateShape, GateFields
  <2>3. IdsCarried'
    BY <1>5, <2>1 DEF FollowInv, IdsCarried
  <2>4. \A u \in HkThreads : call'[u].pc \notin {"page", "stage", "publish"}
    BY <1>5, <1>7, <2>1 DEF GateKnows, OneStagesAtATime, InProjection
  <2>5. \A u \in HkThreads : ProjectionGoesOn(u)'
    BY <2>4 DEF ProjectionGoesOn
  <2>6. ProjectionLasts'
    <3> SUFFICES ASSUME Steady', gate'.last.ok PROVE Tells(registered', Wanted')
      BY DEF ProjectionLasts, Tells
    <3>1. Steady /\ ~call[t].error
      BY <1>2, <1>4, <2>1, <2>2 DEF Steady
    <3>2. Tells(registered, Wanted)
      BY <1>2, <1>10, <3>1 DEF FollowInv, ProjectionGoesOn
    <3> QED BY <1>2, <1>8, <3>2
  <2> QED BY <1>8, <2>3, <2>5, <2>6 DEF FollowInv
<1> QED BY <1>3, <1>9, <1>10

LEMMA FollowStep ==
  CallShapes /\ GateShape /\ GateKnows /\ FollowInv /\ [HkNext]_hkVars => FollowInv'
<1> SUFFICES ASSUME CallShapes, GateShape, GateKnows, FollowInv, [HkNext]_hkVars PROVE FollowInv'
  OBVIOUS
<1>1. CASE UNCHANGED hkVars
  BY <1>1, SameWanted DEF hkVars, FollowInv, IdsCarried, NoBackend, ProjectionLasts,
     ProjectionGoesOn, Steady, Tells, UpTo
<1>2. CASE HkHide
  BY <1>2, HideFollows
<1>3. ASSUME NEW t \in HkThreads, HkBegin(t) \/ HkLookup(t) \/ HkCheck(t) \/ HkCommit(t) \/ HkReturn(t)
      PROVE  FollowInv'
  BY <1>3, BeginFollows, LookupFollows, CheckFollows, CommitFollows, ReturnFollows
<1>4. ASSUME NEW t \in HkThreads,
             HkEnter(t) \/ HkReadPage(t) \/ HkCommitStaged(t) \/ HkPublish(t) \/ HkWake(t)
      PROVE  FollowInv'
  BY <1>4, EnterFollows, ReadPageFollows, CommitStagedFollows, PublishFollows, WakeFollows
<1> QED BY <1>1, <1>2, <1>3, <1>4 DEF HkNext

\* When every command has answered, the last projection has told everything, and
\* each key of a live binding has its one binding.
LEMMA FollowedIsSo == FollowInv => BackendFollowsTheTable
<1> SUFFICES ASSUME FollowInv,
                    \A t \in HkThreads : call[t].pc \in {"idle", "lookup", "check", "commit"},
                    gate.last.ok, ~drifted
             PROVE  /\ DOMAIN registered = {b.key : b \in LiveBindings}
                    /\ \A k \in DOMAIN registered : \E b \in LiveBindings :
                         /\ b.id = registered[k] /\ b.key = k
                         /\ (\E c \in LiveBindings : c.key = k /\ c.owner = "control") => b.owner = "control"
  BY DEF BackendFollowsTheTable
<1>1. Tells(registered, Wanted)
  BY DEF FollowInv, ProjectionLasts, Steady, InProjection
<1>2. /\ Wanted \subseteq LiveBindings
      /\ \A b \in LiveBindings : \E c \in Wanted : c.key = b.key
      /\ \A b \in Wanted, c \in LiveBindings : b.key = c.key /\ c.owner = "control" => b.owner = "control"
  BY KeysAreRepresented DEF FollowInv
<1>3. DOMAIN registered = {b.key : b \in LiveBindings}
  BY <1>1, <1>2 DEF Tells
<1>4. ASSUME NEW k \in DOMAIN registered
      PROVE  \E b \in LiveBindings :
               /\ b.id = registered[k] /\ b.key = k
               /\ (\E c \in LiveBindings : c.key = k /\ c.owner = "control") => b.owner = "control"
  <2>1. PICK b \in Wanted : b.key = k
    BY <1>1 DEF Tells
  <2>2. registered[k] = b.id
    BY <1>1, <2>1 DEF Tells
  <2> QED BY <1>2, <2>1, <2>2
<1> QED BY <1>3, <1>4

\* The gate's theorems, as far as the pages need them.
LEMMA GateIsKnown == HkSpec => []GateKnows
<1>1. HkMaxEdits \in Nat
  BY HotkeyAssumption
<1>2. GateProofs!Spec => []GateProofs!OneProjection /\ []GateProofs!TypeOK
  BY <1>1, GateProofs!ProjectionsAreExclusive, GateProofs!TypeInvariant, PTL
<1>3. HkInit => GateProofs!Init /\ GateShape
  BY GateStart, SameGate
<1>4. BindInv => CallShapes
  BY DEF BindInv
<1>5. CallShapes /\ GateShape /\ [HkNext]_hkVars => [GateProofs!Next]_(GateProofs!vars)
  BY GateStep, SameGate
<1>6. GateProofs!OneProjection => OneStagesAtATime
  BY DEF GateProofs!OneProjection, GateProofs!Leading, OneStagesAtATime
<1>7. GateProofs!OneProjection => (gate.running <=> \E t \in HkThreads : call[t].pc \in InProjection)
  BY DEF GateProofs!OneProjection, GateProofs!Leading, InProjection
<1>8. GateProofs!TypeOK => /\ gate.requested \in Nat
                          /\ \A t \in HkThreads : call[t].target \in 0 .. gate.requested
  BY DEF GateProofs!TypeOK
<1>9. GateProofs!OneProjection /\ GateProofs!TypeOK => GateKnows
  BY <1>6, <1>7, <1>8 DEF GateKnows
<1> QED BY <1>2, <1>3, <1>4, <1>5, <1>9, BindStart, BindStep, GateShapeStep, PTL
        DEF HkSpec, GateProofs!Spec

\* When the commands have answered, the backend has the table's keys and no
\* others, for any number of threads, bindings per page and failures: no
\* page of a projection that other commands changed in between is left
\* standing (hotkeys/projection.rs reads page by page).
THEOREM BackendFollows == HkSpec => []BackendFollowsTheTable
<1>1. BindInv => CallShapes
  BY DEF BindInv
<1>2. HkInit => GateShape
  BY GateStart
<1> QED BY <1>1, <1>2, BindStart, BindStep, GateShapeStep, GateIsKnown, FollowInit, FollowStep,
           FollowedIsSo, PTL DEF HkSpec

-----------------------------------------------------------------------------
(***************************************************************************)
(* HotkeyDaemon.                                                           *)
(*                                                                         *)
(* A change that has finished is served, for any configurations and any    *)
(* number of changes, starts and faults.                                   *)
(***************************************************************************)

Processes == [state : {"live", "zombie", "gone"}, serves : HdConfigs, signal : BOOLEAN]
HdDaemons == Seq(Processes)
LiveOf(daemons) == {d \in DOMAIN daemons : daemons[d].state = "live"}
Unserved(daemons, file) ==
  {d \in LiveOf(daemons) : ~(d = Len(daemons) /\ (daemons[d].signal \/ daemons[d].serves = file))}

DaemonTypes ==
  /\ hdWindow \in {"down", "deferred", "started"}
  /\ hdStep \in {"rest", "begun", "page", "start", "starting", "spawn", "staged", "rename empty", "rename", "reload",
                 "verify", "restore"}
  /\ hdPage \in HdConfigs /\ hdTable \in HdConfigs
  /\ hdCandidate \in HdConfigs \cup {HdNone} /\ hdFile \in HdConfigs \cup {HdNone} /\ hdGood \in HdConfigs \cup {HdNone}
  /\ hdSkipped \in BOOLEAN
  /\ hdDaemons \in HdDaemons
  /\ hdAnswer \in HdConfigs \cup {"none", "failed"}

Counted == hdEdits \in 0 .. HdMaxEdits /\ hdFaults \in 0 .. HdMaxFaults

\* Where a projection is says what has been started; nobody is alive from the
\* end of the daemons left behind to the start of the window's own.
Placed ==
  /\ hdStep # "rest" => hdWindow # "down"
  /\ hdStep \in {"page", "staged", "rename", "reload", "verify", "restore"} => hdWindow = "started"
  /\ hdStep \in {"start", "starting", "rename empty", "spawn"} => hdWindow = "deferred"
  /\ hdStep \in {"starting", "rename empty", "spawn"} => LiveOf(hdDaemons) = {}

\* From the start of a daemon on there is a file, from a page on a candidate for it.
Written ==
  /\ hdStep \in {"page", "starting", "staged", "rename empty", "rename"} => hdCandidate \in HdConfigs
  /\ hdStep = "begun" /\ hdWindow = "started" => hdCandidate \in HdConfigs
  /\ hdStep = "spawn" \/ Len(hdDaemons) > 0 => hdFile \in HdConfigs

OnlyTheWindows == hdWindow = "started" => Len(hdDaemons) > 0 /\ LiveOf(hdDaemons) \subseteq {Len(hdDaemons)}

\* From the signal on the daemon serves the file, or is going to.
Served ==
  /\ hdStep = "verify" => Unserved(hdDaemons, hdFile) = {}
  /\ hdStep = "rest" /\ hdWindow = "started" /\ hdAnswer \in HdConfigs => hdFile = hdAnswer /\ Unserved(hdDaemons, hdFile) = {}

DaemonInv == DaemonTypes /\ Placed /\ Written /\ OnlyTheWindows /\ Served

(***************************************************************************)
(* What becomes of the daemons.                                            *)
(***************************************************************************)

LEMMA DaemonAt ==
  ASSUME NEW daemons \in HdDaemons, NEW d \in DOMAIN daemons
  PROVE  /\ daemons[d] \in Processes
         /\ DOMAIN daemons = 1 .. Len(daemons) /\ Len(daemons) \in Nat
BY DEF HdDaemons

LEMMA ProcessEnds ==
  ASSUME NEW p \in Processes, NEW state \in {"live", "zombie", "gone"}
  PROVE  /\ [p EXCEPT !.state = state] \in Processes /\ [p EXCEPT !.state = state].state = state
         /\ [p EXCEPT !.state = state, !.signal = FALSE] \in Processes
         /\ [p EXCEPT !.state = state, !.signal = FALSE].state = state
BY DEF Processes

LEMMA ProcessSignalled ==
  ASSUME NEW p \in Processes
  PROVE  /\ [p EXCEPT !.signal = TRUE] \in Processes /\ [p EXCEPT !.signal = TRUE].state = p.state
         /\ [p EXCEPT !.signal = TRUE].signal
BY DEF Processes

LEMMA ProcessReads ==
  ASSUME NEW p \in Processes, NEW file \in HdConfigs
  PROVE  /\ [p EXCEPT !.serves = file, !.signal = FALSE] \in Processes
         /\ [p EXCEPT !.serves = file, !.signal = FALSE].state = p.state
         /\ [p EXCEPT !.serves = file, !.signal = FALSE].serves = file
BY DEF Processes

LEMMA TerminatedDaemons ==
  ASSUME hdDaemons \in HdDaemons
  PROVE  Terminated \in HdDaemons /\ Len(Terminated) = Len(hdDaemons) /\ LiveOf(Terminated) = {}
<1>1. DOMAIN hdDaemons = 1 .. Len(hdDaemons) /\ Len(hdDaemons) \in Nat
  BY DEF HdDaemons
<1>2. \A d \in DOMAIN hdDaemons :
        [hdDaemons[d] EXCEPT !.state = "gone"] \in
          Processes
  BY DaemonAt DEF Processes
<1>3. \A d \in DOMAIN hdDaemons : [hdDaemons[d] EXCEPT !.state = "gone"].state # "live"
  BY DaemonAt DEF Processes
<1> QED BY <1>1, <1>2, <1>3 DEF Terminated, HdDaemons, LiveOf

LEMMA SignalledDaemons ==
  ASSUME hdDaemons \in HdDaemons, OnlyTheWindows, hdWindow = "started"
  PROVE  /\ Signalled \in HdDaemons /\ Len(Signalled) = Len(hdDaemons) /\ LiveOf(Signalled) = LiveOf(hdDaemons)
         /\ \A file : Unserved(Signalled, file) = {}
<1> DEFINE n == Len(hdDaemons)
           last == [hdDaemons[n] EXCEPT !.signal = TRUE]
<1>1. n \in DOMAIN hdDaemons /\ DOMAIN hdDaemons = 1 .. n /\ n \in Nat
  BY DEF HdDaemons, OnlyTheWindows
<1>2. CASE IsLive(Daemon)
  <2>1. Signalled = [hdDaemons EXCEPT ![n] = last]
    BY <1>2 DEF Signalled, Daemon
  <2>2. last \in Processes /\ last.state = hdDaemons[n].state /\ last.signal
    BY <1>1, DaemonAt, ProcessSignalled
  <2> HIDE DEF last
  <2>3. Signalled \in HdDaemons /\ Len(Signalled) = n /\ DOMAIN Signalled = 1 .. n
    BY <1>1, <2>1, <2>2 DEF HdDaemons
  <2>4. Signalled[n] = last /\ \A d \in 1 .. n : d # n => Signalled[d] = hdDaemons[d]
    BY <1>1, <2>1
  <2>5. LiveOf(Signalled) = LiveOf(hdDaemons)
    BY <1>1, <2>2, <2>3, <2>4 DEF LiveOf
  <2>6. \A d \in LiveOf(Signalled) : d = n /\ Signalled[d].signal
    BY <2>2, <2>4, <2>5 DEF OnlyTheWindows
  <2> QED BY <2>3, <2>5, <2>6 DEF Unserved
<1>3. CASE ~IsLive(Daemon)
  <2>1. Signalled = hdDaemons
    BY <1>3 DEF Signalled
  <2>2. LiveOf(hdDaemons) = {}
    BY <1>3 DEF OnlyTheWindows, LiveOf, IsLive, Daemon
  <2> QED BY <2>1, <2>2 DEF Unserved
<1> QED BY <1>2, <1>3

LEMMA DeadDaemons ==
  ASSUME hdDaemons \in HdDaemons, NEW d \in DOMAIN hdDaemons
  PROVE  /\ Dead(d) \in HdDaemons /\ Len(Dead(d)) = Len(hdDaemons) /\ LiveOf(Dead(d)) \subseteq LiveOf(hdDaemons)
         /\ \A file : Unserved(hdDaemons, file) = {} => Unserved(Dead(d), file) = {}
<1> DEFINE n == Len(hdDaemons)
           dead == [hdDaemons[d] EXCEPT !.state = IF d = Daemon /\ hdWindow = "started" THEN "zombie" ELSE "gone",
                                        !.signal = FALSE]
<1>1. DOMAIN hdDaemons = 1 .. n /\ n \in Nat
  BY DEF HdDaemons
<1>2. dead \in Processes /\ dead.state # "live"
  BY DaemonAt, ProcessEnds
<1>3. Dead(d) = [hdDaemons EXCEPT ![d] = dead]
  BY DEF Dead
<1> HIDE DEF dead
<1>4. Dead(d) \in HdDaemons /\ Len(Dead(d)) = n /\ DOMAIN Dead(d) = 1 .. n
  BY <1>1, <1>2, <1>3 DEF HdDaemons
<1>5. Dead(d)[d] = dead /\ \A e \in 1 .. n : e # d => Dead(d)[e] = hdDaemons[e]
  BY <1>1, <1>3
<1>6. \A e \in LiveOf(Dead(d)) : e # d /\ e \in LiveOf(hdDaemons) /\ Dead(d)[e] = hdDaemons[e]
  BY <1>1, <1>2, <1>4, <1>5 DEF LiveOf
<1> QED BY <1>4, <1>6 DEF Unserved

LEMMA ReloadedDaemons ==
  ASSUME DaemonTypes, NEW d \in DOMAIN hdDaemons, DaemonReloads(d), hdFile \in HdConfigs
  PROVE  /\ hdDaemons' \in HdDaemons /\ Len(hdDaemons') = Len(hdDaemons) /\ LiveOf(hdDaemons') \subseteq LiveOf(hdDaemons)
         /\ Unserved(hdDaemons, hdFile) = {} => Unserved(hdDaemons', hdFile) = {}
<1> DEFINE n == Len(hdDaemons)
           new == [hdDaemons[d] EXCEPT !.serves = hdFile, !.signal = FALSE]
<1>1. DOMAIN hdDaemons = 1 .. n /\ n \in Nat /\ hdDaemons \in HdDaemons /\ hdDaemons[d] \in Processes
  BY DaemonAt DEF DaemonTypes
<1>2. CASE hdFile \in HdRejected
  BY <1>1, <1>2, DeadDaemons DEF DaemonReloads
<1>3. CASE hdFile \notin HdRejected
  <2>1. hdDaemons' = [hdDaemons EXCEPT ![d] = new]
    BY <1>3 DEF DaemonReloads
  <2>2. new \in Processes /\ new.state = hdDaemons[d].state /\ new.serves = hdFile
    BY <1>1, ProcessReads
  <2> HIDE DEF new
  <2>3. hdDaemons' \in HdDaemons /\ Len(hdDaemons') = n /\ DOMAIN hdDaemons' = 1 .. n
    BY <1>1, <2>1, <2>2 DEF HdDaemons
  <2>4. hdDaemons'[d] = new /\ \A e \in 1 .. n : e # d => hdDaemons'[e] = hdDaemons[e]
    BY <1>1, <2>1
  <2>5. LiveOf(hdDaemons') = LiveOf(hdDaemons)
    BY <1>1, <2>2, <2>3, <2>4 DEF LiveOf
  <2>6. \A e \in DOMAIN hdDaemons : e = d => hdDaemons'[e].serves = hdFile
    BY <2>2, <2>4
  <2> QED BY <1>1, <2>3, <2>4, <2>5, <2>6 DEF Unserved, LiveOf
<1> QED BY <1>2, <1>3

LEMMA SpawnedDaemons ==
  ASSUME DaemonTypes, LiveOf(hdDaemons) = {}, hdFile \in HdConfigs,
         hdDaemons' = Append(hdDaemons, [state |-> "live", serves |-> hdFile, signal |-> FALSE])
  PROVE  hdDaemons' \in HdDaemons /\ Len(hdDaemons') > 0 /\ LiveOf(hdDaemons') \subseteq {Len(hdDaemons')}
<1> DEFINE n == Len(hdDaemons)
           new == [state |-> "live", serves |-> hdFile, signal |-> FALSE]
<1>1. new \in Processes
  BY DEF DaemonTypes, Processes
<1> HIDE DEF new
<1>2. hdDaemons \in HdDaemons /\ hdDaemons' = Append(hdDaemons, new)
  BY DEF DaemonTypes, new
<1>3. /\ hdDaemons' \in HdDaemons /\ Len(hdDaemons') = n + 1 /\ DOMAIN hdDaemons' = 1 .. n + 1 /\ n \in Nat
      /\ \A d \in 1 .. n : hdDaemons'[d] = hdDaemons[d]
  BY <1>1, <1>2 DEF HdDaemons
<1>4. DOMAIN hdDaemons = 1 .. n
  BY <1>2 DEF HdDaemons
<1> QED BY <1>3, <1>4 DEF LiveOf

LEMMA CrashedDaemons ==
  ASSUME hdDaemons \in HdDaemons
  PROVE  LET daemons == [d \in DOMAIN hdDaemons |->
                           IF IsLive(d) THEN hdDaemons[d] ELSE [hdDaemons[d] EXCEPT !.state = "gone"]]
         IN daemons \in HdDaemons /\ Len(daemons) = Len(hdDaemons)
<1>1. DOMAIN hdDaemons = 1 .. Len(hdDaemons) /\ Len(hdDaemons) \in Nat
  BY DEF HdDaemons
<1>2. \A d \in DOMAIN hdDaemons :
        (IF IsLive(d) THEN hdDaemons[d] ELSE [hdDaemons[d] EXCEPT !.state = "gone"])
          \in Processes
  BY DaemonAt DEF Processes
<1> QED BY <1>1, <1>2 DEF HdDaemons

(***************************************************************************)
(* The steps.                                                              *)
(***************************************************************************)

LEMMA BeginSteps ==
  ASSUME DaemonInv, HdBegin \/ HdReadPages
  PROVE  DaemonInv'
<1> USE DaemonAssumption
<1>1. UNCHANGED <<hdDaemons, hdWindow, hdFile>>
  BY DEF HdBegin, HdReadPages
<1>2. DaemonTypes'
  BY DEF DaemonInv, DaemonTypes, HdBegin, HdReadPages, Answers, EnsureStarted
<1>3. Placed' /\ Written'
  BY <1>1 DEF DaemonInv, DaemonTypes, Placed, Written, HdBegin, HdReadPages, Answers, EnsureStarted
<1>4. hdStep' # "verify" /\ (hdStep' = "rest" /\ hdWindow = "started" => hdAnswer' = "failed")
  BY DEF HdBegin, HdReadPages, Answers, EnsureStarted
<1> QED BY <1>1, <1>2, <1>3, <1>4 DEF DaemonInv, OnlyTheWindows, Served

LEMMA StartStep ==
  ASSUME DaemonInv, HdStart
  PROVE  DaemonInv'
<1> USE DaemonAssumption
<1>1. /\ hdDaemons' \in HdDaemons /\ Len(hdDaemons') = Len(hdDaemons)
      /\ hdStep' = "starting" => LiveOf(hdDaemons') = {}
  BY TerminatedDaemons DEF HdStart, DaemonInv, DaemonTypes, Answers
<1>2. DaemonTypes'
  BY <1>1 DEF DaemonInv, DaemonTypes, HdStart, Answers
<1>3. hdWindow = "deferred" /\ hdWindow' = "deferred"
  BY DEF DaemonInv, Placed, HdStart
<1>4. Placed' /\ Written'
  BY <1>1, <1>3 DEF DaemonInv, Placed, Written, HdStart, Answers
<1> QED BY <1>2, <1>3, <1>4 DEF DaemonInv, OnlyTheWindows, Served, HdStart, Answers

LEMMA SpawnStep ==
  ASSUME DaemonInv, HdSpawn
  PROVE  DaemonInv'
<1> USE DaemonAssumption
<1>1. LiveOf(hdDaemons) = {} /\ hdWindow = "deferred" /\ hdFile \in HdConfigs
  BY DEF HdSpawn, DaemonInv, Placed, Written
<1>2. CASE hdWindow' = "started"
  <2>1. hdDaemons' = Append(hdDaemons, [state |-> "live", serves |-> hdFile, signal |-> FALSE])
        /\ hdStep' = "page" /\ hdCandidate' = HdEmpty
        /\ UNCHANGED <<hdTable, hdPage, hdFile, hdGood, hdSkipped, hdAnswer, hdEdits>>
    BY <1>1, <1>2 DEF HdSpawn
  <2>2. hdDaemons' \in HdDaemons /\ Len(hdDaemons') > 0 /\ LiveOf(hdDaemons') \subseteq {Len(hdDaemons')}
    BY <1>1, <2>1, SpawnedDaemons DEF DaemonInv
  <2>3. DaemonTypes'
    BY <1>2, <2>1, <2>2 DEF DaemonInv, DaemonTypes
  <2> QED BY <1>1, <1>2, <2>1, <2>2, <2>3 DEF DaemonInv, Placed, Written, OnlyTheWindows, Served
<1>3. CASE hdWindow' # "started"
  <2>1. /\ UNCHANGED <<hdTable, hdWindow, hdPage, hdCandidate, hdFile, hdGood, hdDaemons, hdEdits>>
        /\ hdStep' = "rest" /\ hdAnswer' = "failed" /\ hdSkipped' = FALSE
    BY <1>3 DEF HdSpawn, Answers
  <2>2. DaemonTypes'
    BY <2>1 DEF DaemonInv, DaemonTypes
  <2> QED BY <1>1, <2>1, <2>2 DEF DaemonInv, Placed, Written, OnlyTheWindows, Served
<1> QED BY <1>2, <1>3

LEMMA FileSteps ==
  ASSUME DaemonInv, HdStage \/ HdPreserve \/ HdRename
  PROVE  DaemonInv'
<1> USE DaemonAssumption
<1>1. UNCHANGED <<hdDaemons, hdWindow>>
  BY DEF HdStage, HdPreserve, HdRename
<1>2. DaemonTypes'
  BY DEF DaemonInv, DaemonTypes, HdStage, HdPreserve, HdRename, Half, Replaced, Answers
<1>3. Placed' /\ OnlyTheWindows'
  BY <1>1 DEF DaemonInv, Placed, OnlyTheWindows, HdStage, HdPreserve, HdRename, Answers
<1>4. Written'
  BY <1>1 DEF DaemonInv, DaemonTypes, Written, HdStage, HdPreserve, HdRename, Half, Replaced, Answers
<1>5. hdStep' # "verify" /\ (hdStep' = "rest" => hdAnswer' = "failed")
  BY DEF HdStage, HdPreserve, HdRename, Answers
<1> QED BY <1>2, <1>3, <1>4, <1>5 DEF DaemonInv, Served

LEMMA ReloadSteps ==
  ASSUME DaemonInv, HdReload \/ HdVerify \/ HdRestore
  PROVE  DaemonInv'
<1> USE DaemonAssumption
<1>1. hdWindow = "started" /\ hdWindow' = "started" /\ hdDaemons \in HdDaemons /\ hdFile \in HdConfigs
  BY DEF DaemonInv, DaemonTypes, Placed, OnlyTheWindows, Written, HdReload, HdVerify, HdRestore
<1>2. hdDaemons' = Signalled \/ hdDaemons' = hdDaemons
  BY DEF HdReload, HdVerify, HdRestore
<1>3. hdDaemons' \in HdDaemons /\ OnlyTheWindows' /\ Len(hdDaemons') = Len(hdDaemons)
  BY <1>1, <1>2, SignalledDaemons DEF DaemonInv, OnlyTheWindows
<1>4. CASE HdReload
  <2>1. /\ UNCHANGED <<hdTable, hdWindow, hdPage, hdCandidate, hdSkipped, hdFile, hdGood, hdAnswer, hdEdits>>
        /\ hdDaemons' = Signalled /\ hdStep' = "verify"
    BY <1>4 DEF HdReload
  <2>2. DaemonTypes'
    BY <1>3, <2>1 DEF DaemonInv, DaemonTypes
  <2>3. Unserved(hdDaemons', hdFile) = {}
    BY <1>1, <2>1, SignalledDaemons DEF DaemonInv
  <2> QED BY <1>1, <1>3, <2>1, <2>2, <2>3 DEF DaemonInv, Placed, Written, Served
<1>5. CASE HdVerify
  <2>1. /\ UNCHANGED <<hdTable, hdWindow, hdPage, hdCandidate, hdFile, hdGood, hdDaemons, hdEdits>>
        /\ \/ hdStep' = "rest" /\ hdAnswer' \in {"failed", hdFile} /\ hdSkipped' = FALSE
           \/ hdStep' = "restore" /\ UNCHANGED <<hdSkipped, hdAnswer>>
    BY <1>5 DEF HdVerify, Answers
  <2>2. DaemonTypes'
    BY <1>1, <2>1 DEF DaemonInv, DaemonTypes
  <2>3. Unserved(hdDaemons, hdFile) = {}
    BY <1>5 DEF DaemonInv, Served, HdVerify
  <2> QED BY <1>1, <1>3, <2>1, <2>2, <2>3 DEF DaemonInv, Placed, Written, Served
<1>6. CASE HdRestore
  <2>1. /\ UNCHANGED <<hdTable, hdWindow, hdPage, hdCandidate, hdGood, hdEdits>>
        /\ hdStep' = "rest" /\ hdAnswer' = "failed" /\ hdSkipped' = FALSE
        /\ hdFile' = hdFile \/ (hdGood # HdNone /\ hdFile' = hdGood)
    BY <1>6 DEF HdRestore, Half, Replaced, Answers
  <2>2. DaemonTypes' /\ hdFile' \in HdConfigs
    BY <1>1, <1>3, <2>1 DEF DaemonInv, DaemonTypes
  <2> QED BY <1>1, <1>3, <2>1, <2>2 DEF DaemonInv, Placed, Written, Served
<1> QED BY <1>4, <1>5, <1>6

LEMMA DaemonSteps ==
  ASSUME DaemonInv, NEW d \in DOMAIN hdDaemons, DaemonReloads(d) \/ DaemonDies(d)
  PROVE  DaemonInv'
<1>1. hdFile \in HdConfigs
  <2>1. DOMAIN hdDaemons = 1 .. Len(hdDaemons) /\ Len(hdDaemons) \in Nat
    BY DaemonAt DEF DaemonInv, DaemonTypes
  <2>2. d \in 1 .. Len(hdDaemons)
    BY <2>1
  <2>3. Len(hdDaemons) > 0
    BY <2>1, <2>2
  <2> QED BY <2>3 DEF DaemonInv, Written
<1>2. /\ hdDaemons' \in HdDaemons /\ Len(hdDaemons') = Len(hdDaemons) /\ LiveOf(hdDaemons') \subseteq LiveOf(hdDaemons)
      /\ Unserved(hdDaemons, hdFile) = {} => Unserved(hdDaemons', hdFile) = {}
  <2>1. CASE DaemonReloads(d)
    BY <1>1, <2>1, ReloadedDaemons DEF DaemonInv
  <2>2. CASE DaemonDies(d)
    BY <2>2, DeadDaemons DEF DaemonDies, DaemonInv, DaemonTypes
  <2> QED BY <2>1, <2>2
<1>3. /\ UNCHANGED <<hdTable, hdWindow, hdPage, hdStep, hdCandidate, hdSkipped, hdFile, hdGood, hdAnswer, hdEdits>>
  BY DEF DaemonReloads, DaemonDies
<1>4. DaemonTypes'
  BY <1>2, <1>3, DaemonAssumption DEF DaemonInv, DaemonTypes
<1> QED BY <1>2, <1>3, <1>4 DEF DaemonInv, Placed, Written, OnlyTheWindows, Served

LEMMA WindowSteps ==
  ASSUME DaemonInv, HdOpen \/ HdClose \/ HdCrash
  PROVE  DaemonInv'
<1> USE DaemonAssumption
<1>1. hdDaemons' \in HdDaemons /\ Len(hdDaemons') = Len(hdDaemons)
  BY TerminatedDaemons, CrashedDaemons DEF HdOpen, HdClose, HdCrash, DaemonInv, DaemonTypes
<1>2. hdWindow' \in {"down", "deferred"} /\ hdStep' = "rest" /\ hdFile' = hdFile
  BY DEF HdOpen, HdClose, HdCrash, DaemonInv, Placed
<1>3. DaemonTypes'
  BY <1>1, <1>2 DEF HdOpen, HdClose, HdCrash, DaemonInv, DaemonTypes
<1> QED BY <1>1, <1>2, <1>3 DEF DaemonInv, Placed, Written, OnlyTheWindows, Served

LEMMA EditStep ==
  ASSUME DaemonInv, NEW edited \in HdConfigs, HdEdit(edited)
  PROVE  DaemonInv'
<1>1. DaemonTypes'
  BY DaemonAssumption DEF HdEdit, DaemonInv, DaemonTypes
<1>2. UNCHANGED <<hdWindow, hdStep, hdCandidate, hdFile, hdDaemons, hdAnswer>>
  BY DEF HdEdit
<1> QED BY <1>1, <1>2 DEF DaemonInv, Placed, Written, OnlyTheWindows, Served

LEMMA CountedHolds == HdSpec => []Counted
<1>1. HdInit => Counted
  BY DaemonAssumption DEF HdInit, Counted
<1>2. ASSUME Counted, [HdNext]_hdVars PROVE Counted'
  <2>1. \/ hdFaults' = hdFaults \/ HdFault
    BY <1>2 DEF HdNext, HdBegin, HdReadPages, HdStart, HdSpawn, HdStage, HdPreserve, HdRename, HdReload, HdVerify,
                HdRestore, DaemonReloads, DaemonDies, HdEdit, HdOpen, HdClose, HdCrash, hdVars
  <2>2. hdEdits' = hdEdits \/ (hdEdits < HdMaxEdits /\ hdEdits' = hdEdits + 1)
    BY <1>2 DEF HdNext, HdBegin, HdReadPages, HdStart, HdSpawn, HdStage, HdPreserve, HdRename, HdReload, HdVerify,
                HdRestore, DaemonReloads, DaemonDies, HdEdit, HdOpen, HdClose, HdCrash, hdVars
  <2> QED BY <1>2, <2>1, <2>2, DaemonAssumption DEF Counted, HdFault
<1> QED BY <1>1, <1>2, PTL DEF HdSpec

LEMMA DaemonInvHolds == HdSpec => []DaemonInv
<1>1. ASSUME HdInit PROVE DaemonInv
  <2>1. hdDaemons \in HdDaemons /\ LiveOf(hdDaemons) = {} /\ Len(hdDaemons) = 0
    BY <1>1 DEF HdInit, HdDaemons, LiveOf
  <2>2. DaemonTypes
    BY <1>1, <2>1, DaemonAssumption DEF HdInit, DaemonTypes
  <2> QED BY <1>1, <2>1, <2>2 DEF HdInit, DaemonInv, Placed, Written, OnlyTheWindows, Served
<1>2. ASSUME DaemonInv, [HdNext]_hdVars PROVE DaemonInv'
  <2>1. CASE HdBegin \/ HdReadPages
    BY <1>2, <2>1, BeginSteps
  <2>2. CASE HdStart \/ HdSpawn
    BY <1>2, <2>2, StartStep, SpawnStep
  <2>3. CASE HdStage \/ HdPreserve \/ HdRename
    BY <1>2, <2>3, FileSteps
  <2>4. CASE HdReload \/ HdVerify \/ HdRestore
    BY <1>2, <2>4, ReloadSteps
  <2>5. ASSUME NEW d \in DOMAIN hdDaemons, DaemonReloads(d) \/ DaemonDies(d) PROVE DaemonInv'
    BY <1>2, <2>5, DaemonSteps
  <2>6. ASSUME NEW edited \in HdConfigs, HdEdit(edited) PROVE DaemonInv'
    BY <1>2, <2>6, EditStep
  <2>7. CASE HdOpen \/ HdClose \/ HdCrash
    BY <1>2, <2>7, WindowSteps
  <2>8. CASE UNCHANGED hdVars
    <3>1. DaemonTypes'
      BY <1>2, <2>8 DEF hdVars, DaemonInv, DaemonTypes
    <3> QED BY <1>2, <2>8, <3>1 DEF hdVars, DaemonInv, Placed, Written, OnlyTheWindows, Served
  <2> QED BY <1>2, <2>1, <2>2, <2>3, <2>4, <2>5, <2>6, <2>7, <2>8 DEF HdNext
<1> QED BY <1>1, <1>2, PTL DEF HdSpec

\* Types: no daemon is started without a file to serve, and what is answered is
\* a table or a failure.
THEOREM DaemonTypeCorrect == HdSpec => []DaemonTypeOK
<1>1. DaemonInv /\ Counted => DaemonTypeOK
  BY DEF Counted, DaemonInv, DaemonTypes, DaemonTypeOK, HdDaemons, Processes, HdFiles
<1> QED BY <1>1, DaemonInvHolds, CountedHolds, PTL

\* For any tables, any number of daemons, faults, crashes and restarts: what the
\* backend answered as projected is what the keys do.
THEOREM ProjectedKeysAreServed == HdSpec => []DoneIsServed
<1>1. DaemonInv => DoneIsServed
  BY DEF DaemonInv, Served, DoneIsServed, Unserved, LiveOf, IsLive, Daemon
<1> QED BY <1>1, DaemonInvHolds, PTL

-----------------------------------------------------------------------------
(***************************************************************************)
(* HotkeyPress.                                                            *)
(*                                                                         *)
(* A chord counts only with what was held, for any keys and tables: the    *)
(* events are one sequence, from what Xlib has read to what has been       *)
(* struck last, and each is reached with the modifiers the listener will   *)
(* have.                                                                   *)
(***************************************************************************)

\* A press that was made with what its chord asks for.
HeldPress == {p \in Press : p.chord \subseteq p.held}

\* An event of the X connection: a modifier key, or the ordinary key with what
\* was held when it was struck.
XEvent == [key : CtrlKeys \cup {"key"}, press : BOOLEAN, held : Chords]
IsPress(e) == e.key \in CtrlKeys /\ e.press
IsRelease(e) == e.key \in CtrlKeys /\ ~e.press

\* The events the listener has not handled, in the order it will: first those
\* Xlib has read.
Pending == Len(hpRead) + Len(hpSocket)
Nth(i) == IF i <= Len(hpRead) THEN hpRead[i] ELSE hpSocket[i - Len(hpRead)]

\* After n more events the listener holds no modifier: one of them is a release
\* and no press follows it, or it holds none now and none of them is a press.
ClearAfter(n) ==
  \/ \E k \in 1 .. n : IsRelease(Nth(k)) /\ \A m \in k + 1 .. n : ~IsPress(Nth(m))
  \/ hpMods = {} /\ \A m \in 1 .. n : ~IsPress(Nth(m))

PressTypes ==
  /\ hpTable \in [Bindings -> [chord : Chords, scope : HpScopes \cup {HpNone}, set : BOOLEAN]]
  /\ hpIndex \in [DOMAIN hpIndex -> Bindings] /\ DOMAIN hpIndex \subseteq Chords
  /\ hpDown \subseteq CtrlKeys /\ hpMods \in Chords
  /\ hpRead \in Seq(XEvent) /\ hpSocket \in Seq(XEvent)

\* What waits on its way to the main loop was struck with its modifiers down.
PressesHeld ==
  hpPipe \in Seq(HeldPress) /\ hpQueue \in Seq(HeldPress) /\ hpPosted \in Seq(HeldPress)

\* Where a key was struck without modifiers the listener will hold none, and if
\* none is down now it will hold none when it has handled everything.
ModsFollow ==
  /\ \A j \in 1 .. Pending : Nth(j).key = "key" /\ Nth(j).held = {} => ClearAfter(j - 1)
  /\ Held = {} => ClearAfter(Pending)

\* Only the X11 listener has events and modifiers.
OnlyX11 == hpBackend # "x11" => hpRead = <<>> /\ hpSocket = <<>> /\ hpMods = {}

PressInv == PressTypes /\ PressesHeld /\ ModsFollow /\ OnlyX11

-----------------------------------------------------------------------------
(* The pending events as one sequence. *)

LEMMA NthIsEvent ==
  ASSUME PressTypes
  PROVE  Pending \in Nat /\ \A i \in 1 .. Pending : Nth(i) \in XEvent
<1>1. Len(hpRead) \in Nat /\ Len(hpSocket) \in Nat
  BY DEF PressTypes
<1>2. Pending \in Nat
  BY <1>1 DEF Pending
<1>3. ASSUME NEW i \in 1 .. Pending PROVE Nth(i) \in XEvent
  <2>1. CASE i <= Len(hpRead)
    <3>1. i \in 1 .. Len(hpRead)
      BY <1>1, <1>3, <2>1, <1>2
    <3> QED BY <2>1, <3>1 DEF PressTypes, Nth
  <2>2. CASE ~(i <= Len(hpRead))
    <3>1. i - Len(hpRead) \in 1 .. Len(hpSocket)
      BY <1>1, <1>3, <2>2 DEF Pending
    <3> QED BY <2>2, <3>1 DEF PressTypes, Nth
  <2> QED BY <2>1, <2>2
<1> QED BY <1>2, <1>3

\* A new event is the last one.
LEMMA EventArrives ==
  ASSUME PressTypes, NEW e \in XEvent, hpSocket' = Append(hpSocket, e), UNCHANGED hpRead
  PROVE  /\ hpSocket' \in Seq(XEvent) /\ Pending' = Pending + 1
         /\ \A n \in Nat : n = Pending + 1 => Nth(n)' = e
         /\ \A i \in 1 .. Pending : Nth(i)' = Nth(i)
<1>1. Len(hpRead) \in Nat /\ Len(hpSocket) \in Nat /\ hpSocket \in Seq(XEvent)
  BY DEF PressTypes
<1>2. hpSocket' \in Seq(XEvent) /\ Len(hpSocket') = Len(hpSocket) + 1
  BY <1>1
<1>3. Pending' = Pending + 1
  BY <1>1, <1>2 DEF Pending
<1>4. ASSUME NEW n \in Nat, n = Pending + 1 PROVE Nth(n)' = e
  <2>1. ~(n <= Len(hpRead)) /\ n - Len(hpRead) = Len(hpSocket) + 1
    BY <1>1, <1>4 DEF Pending
  <2>2. hpSocket'[Len(hpSocket) + 1] = e
    BY <1>1
  <2> QED BY <2>1, <2>2 DEF Nth
<1>5. ASSUME NEW i \in 1 .. Pending PROVE Nth(i)' = Nth(i)
  <2>1. CASE i <= Len(hpRead)
    BY <2>1 DEF Nth
  <2>2. CASE ~(i <= Len(hpRead))
    <3>1. i - Len(hpRead) \in 1 .. Len(hpSocket)
      BY <1>1, <1>5, <2>2 DEF Pending
    <3>2. hpSocket'[i - Len(hpRead)] = hpSocket[i - Len(hpRead)]
      BY <1>1, <3>1
    <3> QED BY <2>2, <3>2 DEF Nth
  <2> QED BY <2>1, <2>2
<1> QED BY <1>2, <1>3, <1>4, <1>5

\* The listener handles the first one, and the others keep their order.
LEMMA EventIsTaken ==
  ASSUME PressTypes, hpSocket # <<>>,
         IF hpRead = <<>> THEN hpRead' = Tail(hpSocket) /\ hpSocket' = <<>>
         ELSE hpRead' = Tail(hpRead) /\ UNCHANGED hpSocket
  PROVE  /\ hpRead' \in Seq(XEvent) /\ hpSocket' \in Seq(XEvent)
         /\ Pending >= 1 /\ Pending' = Pending - 1
         /\ Head(hpRead \o hpSocket) = Nth(1)
         /\ \A i \in 1 .. Pending - 1 : Nth(i)' = Nth(i + 1)
<1>1. /\ hpRead \in Seq(XEvent) /\ hpSocket \in Seq(XEvent)
      /\ Len(hpRead) \in Nat /\ Len(hpSocket) \in Nat /\ Len(hpSocket) >= 1
  BY DEF PressTypes
<1>2. CASE hpRead = <<>>
  <2>1. /\ hpRead' = Tail(hpSocket) /\ hpSocket' = <<>> /\ Len(hpRead) = 0 /\ Len(hpSocket') = 0
        /\ hpRead' \in Seq(XEvent) /\ hpSocket' \in Seq(XEvent) /\ Len(hpRead') = Len(hpSocket) - 1
    BY <1>1, <1>2
  <2>2. hpRead \o hpSocket = hpSocket
    BY <1>1, <1>2, ConcatEmptySeq
  <2>3. Head(hpRead \o hpSocket) = Nth(1)
    BY <1>1, <2>1, <2>2 DEF Nth
  <2>4. Pending' = Pending - 1 /\ Pending = Len(hpSocket)
    BY <1>1, <2>1 DEF Pending
  <2>5. ASSUME NEW i \in 1 .. Pending - 1 PROVE Nth(i)' = Nth(i + 1)
    <3>1. i \in 1 .. Len(hpSocket) - 1 /\ i \in Nat
      BY <2>4, <1>1
    <3>2. Tail(hpSocket)[i] = hpSocket[i + 1]
      BY <1>1, <3>1
    <3>3. i <= Len(hpRead') /\ ~(i + 1 <= Len(hpRead)) /\ i + 1 - Len(hpRead) = i + 1
      BY <1>1, <2>1, <3>1
    <3> QED BY <2>1, <3>2, <3>3 DEF Nth
  <2> QED BY <1>1, <2>1, <2>3, <2>4, <2>5
<1>3. CASE hpRead # <<>>
  <2>1. /\ hpRead' = Tail(hpRead) /\ hpSocket' = hpSocket /\ Len(hpRead) >= 1
        /\ hpRead' \in Seq(XEvent) /\ Len(hpRead') = Len(hpRead) - 1
    BY <1>1, <1>3
  <2>2. Head(hpRead \o hpSocket) = hpRead[1]
    BY <1>1, <2>1, ConcatProperties
  <2>3. Head(hpRead \o hpSocket) = Nth(1)
    BY <1>1, <2>1, <2>2 DEF Nth
  <2>4. Pending' = Pending - 1 /\ Pending >= 1
    BY <1>1, <2>1 DEF Pending
  <2>5. ASSUME NEW i \in 1 .. Pending - 1 PROVE Nth(i)' = Nth(i + 1)
    <3>1. CASE i + 1 <= Len(hpRead)
      <4>1. i \in 1 .. Len(hpRead) - 1 /\ i <= Len(hpRead')
        BY <1>1, <2>1, <2>5, <3>1 DEF Pending
      <4>2. Tail(hpRead)[i] = hpRead[i + 1]
        BY <1>1, <4>1
      <4> QED BY <2>1, <3>1, <4>1, <4>2 DEF Nth
    <3>2. CASE ~(i + 1 <= Len(hpRead))
      <4>1. ~(i <= Len(hpRead')) /\ i - Len(hpRead') = i + 1 - Len(hpRead)
        BY <1>1, <2>1, <2>5, <3>2 DEF Pending
      <4> QED BY <2>1, <3>2, <4>1 DEF Nth
    <3> QED BY <3>1, <3>2
  <2> QED BY <1>1, <2>1, <2>3, <2>4, <2>5
<1> QED BY <1>2, <1>3

\* To be clear after some events does not depend on later ones.
LEMMA ClearStays ==
  ASSUME NEW n \in Nat, ClearAfter(n), UNCHANGED hpMods, \A i \in 1 .. n : Nth(i)' = Nth(i)
  PROVE  ClearAfter(n)'
<1>1. ASSUME NEW k \in 1 .. n, IsRelease(Nth(k)), \A m \in k + 1 .. n : ~IsPress(Nth(m))
      PROVE  ClearAfter(n)'
  <2>1. IsRelease(Nth(k))'
    BY <1>1 DEF IsRelease
  <2>2. \A m \in k + 1 .. n : m \in 1 .. n
    BY <1>1
  <2>3. \A m \in k + 1 .. n : ~IsPress(Nth(m))'
    BY <1>1, <2>2 DEF IsPress
  <2> QED BY <1>1, <2>1, <2>3 DEF ClearAfter
<1>2. ASSUME hpMods = {}, \A m \in 1 .. n : ~IsPress(Nth(m))
      PROVE  ClearAfter(n)'
  <2>1. \A m \in 1 .. n : ~IsPress(Nth(m))'
    BY <1>2 DEF IsPress
  <2> QED BY <1>2, <2>1 DEF ClearAfter
<1> QED BY <1>1, <1>2 DEF ClearAfter

\* What the listener makes of the first event shows in what it holds then.
LEMMA ClearAfterTheFirst ==
  ASSUME NEW n \in Nat, n >= 1, ClearAfter(n), \A i \in 1 .. n - 1 : Nth(i)' = Nth(i + 1),
         IsRelease(Nth(1)) => hpMods' = {},
         hpMods = {} /\ ~IsPress(Nth(1)) => hpMods' = {}
  PROVE  ClearAfter(n - 1)'
<1>1. ASSUME NEW k \in 1 .. n, IsRelease(Nth(k)), \A m \in k + 1 .. n : ~IsPress(Nth(m))
      PROVE  ClearAfter(n - 1)'
  <2>1. ASSUME NEW m \in 1 .. n - 1, m + 1 \in k + 1 .. n PROVE ~IsPress(Nth(m))'
    BY <1>1, <2>1 DEF IsPress
  <2>2. CASE k = 1
    <3>1. \A m \in 1 .. n - 1 : m + 1 \in k + 1 .. n
      BY <2>2
    <3> QED BY <1>1, <2>1, <2>2, <3>1 DEF ClearAfter
  <2>3. CASE k # 1
    <3>1. k - 1 \in 1 .. n - 1 /\ k - 1 + 1 = k
      BY <2>3
    <3>2. IsRelease(Nth(k - 1))'
      BY <1>1, <3>1 DEF IsRelease
    <3>3. \A m \in k - 1 + 1 .. n - 1 : m \in 1 .. n - 1 /\ m + 1 \in k + 1 .. n
      OBVIOUS
    <3>4. \A m \in k - 1 + 1 .. n - 1 : ~IsPress(Nth(m))'
      BY <2>1, <3>3
    <3> QED BY <3>1, <3>2, <3>4 DEF ClearAfter
  <2> QED BY <2>2, <2>3
<1>2. ASSUME hpMods = {}, \A m \in 1 .. n : ~IsPress(Nth(m))
      PROVE  ClearAfter(n - 1)'
  <2>1. \A m \in 1 .. n - 1 : m + 1 \in 1 .. n
    OBVIOUS
  <2>2. \A m \in 1 .. n - 1 : ~IsPress(Nth(m))'
    BY <1>2, <2>1 DEF IsPress
  <2>3. hpMods' = {}
    BY <1>2
  <2> QED BY <2>2, <2>3 DEF ClearAfter
<1> QED BY <1>1, <1>2 DEF ClearAfter

-----------------------------------------------------------------------------
(* The invariant. *)

LEMMA PressStart == HpInit => PressInv
<1> SUFFICES ASSUME HpInit PROVE PressInv
  OBVIOUS
<1> USE HotkeyPressAssumption DEF HpInit
<1>1. PressTypes
  BY DEF PressTypes, Chords
<1>2. PressesHeld
  BY DEF PressesHeld
<1>3. Pending = 0
  BY DEF Pending
<1>4. ModsFollow
  BY <1>3 DEF ModsFollow, ClearAfter
<1>5. OnlyX11
  BY DEF OnlyX11
<1> QED BY <1>1, <1>2, <1>4, <1>5 DEF PressInv

\* What a backend answers to are bindings of the table.
LEMMA ProjectedIsIndex ==
  ASSUME PressTypes
  PROVE  /\ Projected(hpTable) \in [DOMAIN Projected(hpTable) -> Bindings]
         /\ DOMAIN Projected(hpTable) \subseteq Chords
<1> DEFINE First(c, b) == /\ hpTable[b].set /\ hpTable[b].chord = c
                          /\ \A a \in 1 .. b - 1 : ~(hpTable[a].set /\ hpTable[a].chord = c)
           chords == {hpTable[b].chord : b \in {a \in Bindings : hpTable[a].set}}
<1>1. Projected(hpTable) = [c \in chords |-> CHOOSE b \in Bindings : First(c, b)]
  BY DEF Projected
<1>2. chords \subseteq Chords
  BY DEF PressTypes
<1>3. ASSUME NEW c \in chords PROVE \E b \in Bindings : First(c, b)
  <2> DEFINE Is(b) == hpTable[b].set /\ hpTable[b].chord = c
  <2>1. PICK b \in Bindings : Is(b)
    BY <1>3
  <2>2. 1 .. 1 - 1 = {} /\ 1 .. 2 - 1 = {1} /\ 1 .. 3 - 1 = {1, 2} /\ Bindings = {1, 2, 3}
    BY DEF Bindings
  <2>3. \/ Is(1)
        \/ Is(2) /\ ~Is(1)
        \/ Is(3) /\ ~Is(1) /\ ~Is(2)
    BY <2>1, <2>2
  <2> QED BY <2>2, <2>3
<1> HIDE DEF First, chords
<1>4. \A c \in chords : (CHOOSE b \in Bindings : First(c, b)) \in Bindings
  BY <1>3
<1> QED BY <1>1, <1>2, <1>4

\* A step that leaves the keys and what is on its way alone.
LEMMA KeysStay ==
  ASSUME PressInv, UNCHANGED <<hpDown, hpSocket, hpRead, hpMods>>, PressTypes', PressesHeld', OnlyX11'
  PROVE  PressInv'
<1>1. Pending' = Pending /\ \A i : Nth(i)' = Nth(i)
  BY DEF Pending, Nth
<1>2. \A n : ClearAfter(n)' = ClearAfter(n)
  BY <1>1 DEF ClearAfter, IsPress, IsRelease
<1>3. Held' = Held
  BY DEF Held
<1>4. ModsFollow'
  BY <1>1, <1>2, <1>3 DEF PressInv, ModsFollow
<1> QED BY <1>4 DEF PressInv

\* A backend that runs is kept, so the events that wait are still X11's.
LEMMA ProjectKeeps == ASSUME PressInv, Project PROVE PressInv'
<1>1. /\ hpIndex' = Projected(hpTable)
      /\ UNCHANGED <<hpTable, hpDown, hpSocket, hpRead, hpMods, hpPipe, hpQueue, hpPosted>>
      /\ hpBackend # "none" => hpBackend' = hpBackend
  BY DEF Project, hpLibrary, hpKeys, hpLoop
<1>2. PressTypes'
  BY <1>1, ProjectedIsIndex DEF PressInv, PressTypes
<1>3. PressesHeld'
  BY <1>1 DEF PressInv, PressesHeld
<1>4. OnlyX11'
  BY <1>1 DEF PressInv, OnlyX11
<1> QED BY <1>1, <1>2, <1>3, <1>4, KeysStay

LEMMA EditKeeps == ASSUME PressInv, EditBinding PROVE PressInv'
<1>1. /\ UNCHANGED <<hpDown, hpSocket, hpRead, hpMods, hpPipe, hpQueue, hpPosted, hpBackend, hpIndex>>
      /\ \E b \in Bindings :
           hpTable' \in {[hpTable EXCEPT ![b] = Unbound],
                         [hpTable EXCEPT ![b].chord = IF @ = {} THEN {"ctrl"} ELSE {}]}
  BY DEF EditBinding, hpManager, hpKeys, hpLoop
<1>2. PressTypes'
  <2> DEFINE Rows == [chord : Chords, scope : HpScopes \cup {HpNone}, set : BOOLEAN]
  <2>1. PICK b \in Bindings :
          hpTable' \in {[hpTable EXCEPT ![b] = Unbound],
                        [hpTable EXCEPT ![b].chord = IF @ = {} THEN {"ctrl"} ELSE {}]}
    BY <1>1
  <2>2. hpTable \in [Bindings -> Rows] /\ hpTable[b] \in Rows
    BY DEF PressInv, PressTypes
  <2>3. Unbound \in Rows
    BY DEF Unbound, Chords
  <2>4. {"ctrl"} \in Chords /\ {} \in Chords
    BY DEF Chords
  <2>5. \A c \in Chords : [hpTable[b] EXCEPT !.chord = c] \in Rows
    BY <2>2
  <2>6. hpTable' \in [Bindings -> Rows]
    BY <2>1, <2>2, <2>3, <2>4, <2>5
  <2> QED BY <1>1, <2>6 DEF PressInv, PressTypes
<1>3. PressesHeld'
  BY <1>1 DEF PressInv, PressesHeld
<1>4. OnlyX11'
  BY <1>1 DEF PressInv, OnlyX11
<1> QED BY <1>1, <1>2, <1>3, <1>4, KeysStay

\* An event arrives in X11: that of a key struck without modifiers when the
\* listener will hold none, or one of a modifier.
LEMMA EventKeeps ==
  ASSUME PressInv, hpBackend = "x11", NEW e \in XEvent, hpSocket' = Append(hpSocket, e),
         UNCHANGED <<hpTable, hpBackend, hpIndex, hpRead, hpMods, hpPipe, hpQueue, hpPosted>>,
         hpDown' \subseteq CtrlKeys,
         e.key = "key" /\ e.held = {} => Held = {},
         Held' = {} => IsRelease(e) \/ (Held = {} /\ ~IsPress(e))
  PROVE  PressInv'
<1>1. /\ hpSocket' \in Seq(XEvent) /\ Pending' = Pending + 1
      /\ \A n \in Nat : n = Pending + 1 => Nth(n)' = e
      /\ \A i \in 1 .. Pending : Nth(i)' = Nth(i)
  BY EventArrives DEF PressInv
<1>2. Pending \in Nat
  BY NthIsEvent DEF PressInv
<1>3. PressTypes'
  BY <1>1 DEF PressInv, PressTypes
<1>4. PressesHeld' /\ OnlyX11'
  BY DEF PressInv, PressesHeld, OnlyX11
<1>5. ASSUME NEW n \in 0 .. Pending, ClearAfter(n) PROVE ClearAfter(n)'
  <2>1. n \in Nat /\ \A i \in 1 .. n : Nth(i)' = Nth(i)
    BY <1>1, <1>2
  <2> QED BY <1>5, <2>1, ClearStays
<1>6. ASSUME NEW j \in 1 .. Pending', Nth(j)'.key = "key", Nth(j)'.held = {}
      PROVE  ClearAfter(j - 1)'
  <2>1. CASE j \in 1 .. Pending
    <3>1. ClearAfter(j - 1)
      BY <1>1, <1>6, <2>1 DEF PressInv, ModsFollow
    <3>2. j - 1 \in 0 .. Pending
      BY <1>2, <2>1
    <3> QED BY <1>5, <3>1, <3>2
  <2>2. CASE j = Pending + 1
    <3>1. Nth(j)' = e
      BY <1>1, <1>2, <2>2
    <3>2. ClearAfter(Pending)
      BY <1>6, <3>1 DEF PressInv, ModsFollow
    <3>3. j - 1 = Pending /\ Pending \in 0 .. Pending
      BY <1>2, <2>2
    <3>4. \A n \in Nat : n = Pending => ClearAfter(n)'
      BY <1>5, <3>2, <3>3
    <3> QED BY <1>2, <3>3, <3>4
  <2> QED BY <1>1, <1>2, <1>6, <2>1, <2>2
<1>7. ASSUME Held' = {}, NEW n \in Nat, n = Pending + 1 PROVE ClearAfter(n)'
  <2>1. Nth(n)' = e
    BY <1>1, <1>7
  <2>2. CASE IsRelease(e)
    <3>1. n \in 1 .. n /\ n + 1 .. n = {}
      BY <1>2, <1>7
    <3>2. IsRelease(Nth(n))'
      BY <2>1, <2>2 DEF IsRelease
    <3> QED BY <3>1, <3>2 DEF ClearAfter
  <2>3. CASE Held = {} /\ ~IsPress(e)
    <3>1. ClearAfter(Pending) /\ Pending \in 0 .. Pending
      BY <1>2, <2>3 DEF PressInv, ModsFollow
    <3>2. \A i \in 1 .. n : i \in 1 .. Pending \/ i = n
      BY <1>2, <1>7
    <3>3. ~IsPress(Nth(n))'
      BY <2>1, <2>3 DEF IsPress
    <3>4. ASSUME NEW k \in 1 .. Pending, IsRelease(Nth(k)), \A m \in k + 1 .. Pending : ~IsPress(Nth(m))
          PROVE  ClearAfter(n)'
      <4>1. k \in 1 .. n /\ IsRelease(Nth(k))'
        BY <1>1, <1>2, <1>7, <3>4 DEF IsRelease
      <4>2. \A m \in k + 1 .. n : m = n \/ (m \in k + 1 .. Pending /\ m \in 1 .. Pending)
        BY <1>2, <1>7
      <4>3. \A m \in k + 1 .. n : ~IsPress(Nth(m))'
        BY <1>1, <3>3, <3>4, <4>2 DEF IsPress
      <4> QED BY <4>1, <4>3 DEF ClearAfter
    <3>5. ASSUME hpMods = {}, \A m \in 1 .. Pending : ~IsPress(Nth(m))
          PROVE  ClearAfter(n)'
      <4>1. \A m \in 1 .. n : ~IsPress(Nth(m))'
        BY <1>1, <3>2, <3>3, <3>5 DEF IsPress
      <4> QED BY <3>5, <4>1 DEF ClearAfter
    <3> QED BY <3>1, <3>4, <3>5 DEF ClearAfter
  <2> QED BY <1>7, <2>2, <2>3
<1>8. ModsFollow'
  <2>1. Held' = {} => ClearAfter(Pending)'
    BY <1>1, <1>2, <1>7
  <2> QED BY <1>6, <2>1 DEF ModsFollow
<1> QED BY <1>3, <1>4, <1>8 DEF PressInv

LEMMA ModifierKeeps == ASSUME PressInv, Modifier PROVE PressInv'
<1>1. PICK k \in CtrlKeys :
        /\ hpDown' = IF k \in hpDown THEN hpDown \ {k} ELSE hpDown \cup {k}
        /\ XEvents([key |-> k, press |-> k \notin hpDown, held |-> {}])
  BY DEF Modifier
<1> DEFINE e == [key |-> k, press |-> k \notin hpDown, held |-> {}]
<1>2. UNCHANGED <<hpTable, hpBackend, hpIndex, hpRead, hpMods, hpPipe, hpQueue, hpPosted>>
  BY DEF Modifier, hpLibrary, hpManager, hpLoop
<1>3. hpDown' \subseteq CtrlKeys
  BY <1>1 DEF PressInv, PressTypes
<1>4. e \in XEvent /\ e.key = k /\ e.key # "key" /\ (e.press <=> k \notin hpDown)
  BY DEF XEvent, Chords, CtrlKeys
<1>5. CASE hpBackend = "x11"
  <2>1. hpSocket' = Append(hpSocket, e)
    BY <1>1, <1>5 DEF XEvents
  <2>2. Held' = {} => IsRelease(e)
    BY <1>1, <1>4 DEF Held, IsRelease
  <2> HIDE DEF e
  <2> QED BY <1>2, <1>3, <1>4, <1>5, <2>1, <2>2, EventKeeps
<1>6. CASE hpBackend # "x11"
  <2>1. hpSocket' = hpSocket /\ hpRead = <<>> /\ hpSocket = <<>> /\ hpMods = {}
    BY <1>1, <1>6 DEF XEvents, PressInv, OnlyX11
  <2>2. Pending' = 0
    BY <1>2, <2>1 DEF Pending
  <2>3. ModsFollow'
    BY <1>2, <2>1, <2>2 DEF ModsFollow, ClearAfter
  <2>4. PressTypes' /\ PressesHeld' /\ OnlyX11'
    BY <1>2, <1>3, <2>1 DEF PressInv, PressTypes, PressesHeld, OnlyX11
  <2> QED BY <2>3, <2>4 DEF PressInv
<1> QED BY <1>5, <1>6

LEMMA StrikeKeeps == ASSUME PressInv, Strike PROVE PressInv'
<1> DEFINE e == [key |-> "key", press |-> TRUE, held |-> Held]
<1>1. /\ hpBackend = "x11" /\ hpSocket' = Append(hpSocket, e)
      /\ UNCHANGED <<hpTable, hpBackend, hpIndex, hpDown, hpRead, hpMods, hpPipe, hpQueue, hpPosted>>
  BY DEF Strike, XEvents, hpLibrary, hpManager, hpLoop
<1>2. e \in XEvent /\ e.key = "key" /\ e.held = Held /\ ~IsPress(e)
  BY DEF XEvent, Chords, Held, IsPress, CtrlKeys
<1>3. Held' = Held /\ hpDown' \subseteq CtrlKeys
  BY <1>1 DEF Held, PressInv, PressTypes
<1> HIDE DEF e
<1> QED BY <1>1, <1>2, <1>3, EventKeeps

\* A press that is dispatched was struck with the modifiers of its chord.
LEMMA QueueTakes ==
  ASSUME PressesHeld, NEW p \in HeldPress
  PROVE  Dispatched(p) \in Seq(HeldPress)
BY DEF PressesHeld, Dispatched

LEMMA ListenKeeps == ASSUME PressInv, Listen PROVE PressInv'
<1> DEFINE event == Head(hpRead \o hpSocket)
<1>1. /\ hpRead' \in Seq(XEvent) /\ hpSocket' \in Seq(XEvent)
      /\ Pending >= 1 /\ Pending' = Pending - 1
      /\ event = Nth(1)
      /\ \A i \in 1 .. Pending - 1 : Nth(i)' = Nth(i + 1)
  <2>1. /\ hpSocket # <<>>
        /\ IF hpRead = <<>> THEN hpRead' = Tail(hpSocket) /\ hpSocket' = <<>>
           ELSE hpRead' = Tail(hpRead) /\ UNCHANGED hpSocket
    BY DEF Listen
  <2> QED BY <2>1, EventIsTaken DEF PressInv
<1>2. Pending \in Nat /\ event \in XEvent
  <2>1. Pending \in Nat /\ \A i \in 1 .. Pending : Nth(i) \in XEvent
    BY NthIsEvent DEF PressInv
  <2>2. 1 \in 1 .. Pending
    BY <1>1, <2>1
  <2> QED BY <1>1, <2>1, <2>2
<1>3. UNCHANGED <<hpTable, hpBackend, hpIndex, hpDown, hpPipe, hpPosted>>
  BY DEF Listen, hpLibrary, hpManager, hpLoop
<1>4. /\ hpMods' \in Chords
      /\ IsRelease(event) => hpMods' = {}
      /\ hpMods = {} /\ ~IsPress(event) => hpMods' = {}
  <2>1. IF event.key \in CtrlKeys THEN hpMods' = Modified(event.press) ELSE hpMods' = hpMods
    BY DEF Listen
  <2> QED BY <2>1 DEF PressInv, PressTypes, Modified, Chords, IsRelease, IsPress
<1>5. hpQueue' \in Seq(HeldPress)
  <2>1. CASE event.key \in CtrlKeys
    BY <2>1 DEF Listen, PressInv, PressesHeld
  <2>2. CASE event.key \notin CtrlKeys
    <3> DEFINE p == [id |-> hpIndex[hpMods], chord |-> hpMods, held |-> event.held]
    <3>1. hpQueue' = IF hpMods \in DOMAIN hpIndex THEN Dispatched(p) ELSE hpQueue
      BY <2>2 DEF Listen
    <3>2. hpMods \subseteq event.held
      <4>1. CASE event.held = {}
        <5>1. 1 \in 1 .. Pending /\ Nth(1).key = "key" /\ Nth(1).held = {}
          <6> HIDE DEF event
          <6>1. event.key \in CtrlKeys \cup {"key"}
            BY <1>2 DEF XEvent
          <6>2. 1 \in 1 .. Pending
            BY <1>1, <1>2
          <6> QED BY <1>1, <2>2, <4>1, <6>1, <6>2
        <5>2. ClearAfter(1 - 1)
          BY <5>1 DEF PressInv, ModsFollow
        <5>3. 1 .. 1 - 1 = {}
          OBVIOUS
        <5> QED BY <5>2, <5>3 DEF ClearAfter
      <4>2. CASE event.held # {}
        <5>1. event.held \in SUBSET {"ctrl"} /\ hpMods \in SUBSET {"ctrl"}
          BY <1>2 DEF PressInv, PressTypes, XEvent, Chords
        <5> HIDE DEF event
        <5> QED BY <4>2, <5>1
      <4> QED BY <4>1, <4>2
    <3>3. hpMods \in DOMAIN hpIndex => p \in HeldPress
      BY <1>2, <3>2 DEF PressInv, PressTypes, HeldPress, Press, XEvent
    <3> HIDE DEF p
    <3> QED BY <3>1, <3>3, QueueTakes DEF PressInv, PressesHeld
  <2> QED BY <2>1, <2>2
<1> HIDE DEF event
<1>6. PressTypes' /\ PressesHeld'
  BY <1>1, <1>3, <1>4, <1>5 DEF PressInv, PressTypes, PressesHeld
<1>7. OnlyX11'
  BY <1>3 DEF PressInv, OnlyX11, Listen
<1>8. ASSUME NEW n \in 1 .. Pending, ClearAfter(n) PROVE ClearAfter(n - 1)'
  <2>1. n \in Nat /\ n >= 1 /\ \A i \in 1 .. n - 1 : i \in 1 .. Pending - 1
    BY <1>2
  <2>2. \A i \in 1 .. n - 1 : Nth(i)' = Nth(i + 1)
    BY <1>1, <2>1
  <2> QED BY <1>1, <1>4, <1>8, <2>1, <2>2, ClearAfterTheFirst
<1>9. ModsFollow'
  <2>1. ASSUME NEW j \in 1 .. Pending', Nth(j)'.key = "key", Nth(j)'.held = {}
        PROVE  ClearAfter(j - 1)'
    <3>1. j + 1 \in 1 .. Pending /\ j + 1 - 1 = j /\ j \in 1 .. Pending /\ j \in 1 .. Pending - 1
      BY <1>1, <1>2, <2>1
    <3>2. Nth(j + 1).key = "key" /\ Nth(j + 1).held = {}
      BY <1>1, <2>1, <3>1
    <3>3. ClearAfter(j + 1 - 1)
      BY <3>1, <3>2 DEF PressInv, ModsFollow
    <3>4. ClearAfter(j)
      BY <3>1, <3>3
    <3> QED BY <1>8, <3>1, <3>4
  <2>2. ASSUME Held' = {}, NEW n \in Nat, n = Pending' PROVE ClearAfter(n)'
    <3>1. Held = {}
      BY <1>3, <2>2 DEF Held
    <3>2. ClearAfter(Pending)
      BY <3>1 DEF PressInv, ModsFollow
    <3>3. n + 1 = Pending /\ n + 1 \in 1 .. Pending /\ n + 1 - 1 = n
      BY <1>1, <1>2, <2>2
    <3>4. ClearAfter(n + 1)
      BY <3>2, <3>3
    <3>5. ClearAfter(n + 1 - 1)'
      BY <1>8, <3>3, <3>4
    <3> QED BY <3>3, <3>5
  <2>3. Held' = {} => ClearAfter(Pending)'
    BY <1>1, <1>2, <2>2
  <2> QED BY <2>1, <2>3 DEF ModsFollow
<1> QED BY <1>6, <1>7, <1>9 DEF PressInv

LEMMA DaemonKeeps == ASSUME PressInv, DaemonWrites \/ ReadLine PROVE PressInv'
<1>1. UNCHANGED <<hpTable, hpBackend, hpIndex, hpDown, hpSocket, hpRead, hpMods, hpPosted>>
  BY DEF DaemonWrites, ReadLine, hpLibrary, hpManager, hpLoop
<1>2. PressesHeld'
  <2>1. CASE DaemonWrites
    <3>1. PICK line \in {[id |-> hpIndex[c], chord |-> c, held |-> c] : c \in DOMAIN hpIndex}
                        \cup {[id |-> HpNone, chord |-> {}, held |-> {}]} :
            hpPipe' = Append(hpPipe, line)
      BY <2>1 DEF DaemonWrites
    <3>2. line \in HeldPress
      BY DEF PressInv, PressTypes, HeldPress, Press, Chords
    <3>3. hpPipe' \in Seq(HeldPress)
      BY <3>1, <3>2 DEF PressInv, PressesHeld
    <3> QED BY <1>1, <2>1, <3>3 DEF DaemonWrites, PressInv, PressesHeld
  <2>2. CASE ReadLine
    <3>1. hpPipe # <<>> /\ hpPipe' = Tail(hpPipe)
          /\ hpQueue' \in {hpQueue, Dispatched(Head(hpPipe))}
      BY <2>2 DEF ReadLine
    <3>2. Head(hpPipe) \in HeldPress /\ hpPipe' \in Seq(HeldPress)
      BY <3>1 DEF PressInv, PressesHeld
    <3>3. Dispatched(Head(hpPipe)) \in Seq(HeldPress)
      BY <3>2, QueueTakes DEF PressInv
    <3> QED BY <1>1, <3>1, <3>2, <3>3 DEF PressInv, PressesHeld
  <2> QED BY <2>1, <2>2
<1>3. PressTypes' /\ OnlyX11'
  BY <1>1 DEF PressInv, PressTypes, OnlyX11
<1> QED BY <1>1, <1>2, <1>3, KeysStay

LEMMA LoopKeeps ==
  ASSUME PressInv, InstallSwhkd \/ PostPress \/ HandleHotkey \/ ShowOrRecord
                   \/ LoadGroup \/ PickSound \/ NotePick \/ PlayPick
  PROVE  PressInv'
<1>1. UNCHANGED <<hpTable, hpBackend, hpIndex, hpDown, hpSocket, hpRead, hpMods, hpPipe>>
  BY DEF InstallSwhkd, PostPress, HandleHotkey, ShowOrRecord, LoadGroup, PickSound, NotePick, PlayPick,
         hpLibrary, hpManager, hpKeys
<1>2. PressesHeld'
  <2>1. CASE PostPress
    <3>1. hpQueue # <<>> /\ hpPosted' = Append(hpPosted, Head(hpQueue)) /\ hpQueue' = Tail(hpQueue)
      BY <2>1 DEF PostPress
    <3>2. Head(hpQueue) \in HeldPress /\ hpQueue' \in Seq(HeldPress)
      BY <3>1 DEF PressInv, PressesHeld
    <3> QED BY <1>1, <3>1, <3>2 DEF PressInv, PressesHeld
  <2>2. CASE HandleHotkey
    <3>1. hpPosted # <<>> /\ hpPosted' = Tail(hpPosted) /\ hpQueue' = hpQueue
      BY <2>2 DEF HandleHotkey
    <3>2. hpPosted' \in Seq(HeldPress)
      BY <3>1 DEF PressInv, PressesHeld
    <3> QED BY <1>1, <3>1, <3>2 DEF PressInv, PressesHeld
  <2>3. CASE InstallSwhkd \/ ShowOrRecord \/ LoadGroup \/ PickSound \/ NotePick \/ PlayPick
    <3>1. UNCHANGED <<hpQueue, hpPosted>>
      BY <2>3 DEF InstallSwhkd, ShowOrRecord, LoadGroup, PickSound, NotePick, PlayPick, hpLoop
    <3> QED BY <1>1, <3>1 DEF PressInv, PressesHeld
  <2> QED BY <2>1, <2>2, <2>3
<1>3. PressTypes' /\ OnlyX11'
  BY <1>1 DEF PressInv, PressTypes, OnlyX11
<1> QED BY <1>1, <1>2, <1>3, KeysStay

LEMMA PressStep == PressInv /\ [HpNext]_hpVars => PressInv'
<1> SUFFICES ASSUME PressInv, [HpNext]_hpVars PROVE PressInv'
  OBVIOUS
<1>1. CASE UNCHANGED hpVars
  <2>1. UNCHANGED <<hpTable, hpBackend, hpIndex, hpDown, hpSocket, hpRead, hpMods, hpPipe, hpQueue, hpPosted>>
    BY <1>1 DEF hpVars, hpLibrary, hpManager, hpKeys, hpLoop
  <2>2. PressTypes' /\ PressesHeld' /\ OnlyX11'
    BY <2>1 DEF PressInv, PressTypes, PressesHeld, OnlyX11
  <2> QED BY <2>1, <2>2, KeysStay
<1> QED BY <1>1, ProjectKeeps, EditKeeps, ModifierKeeps, StrikeKeeps, ListenKeeps, DaemonKeeps,
           LoopKeeps DEF HpNext

\* A hotkey with modifiers triggers only when they were down as its key was
\* struck, however far the X11 listener is behind (hotkeys/x11_backend.rs keeps
\* active_mods itself, from events Xlib may hold back) and whoever else writes.
THEOREM ChordsAreHeld == HpSpec => []OnlyHeldModifiersCount
<1>1. PressInv => OnlyHeldModifiersCount
  BY DEF PressInv, PressesHeld, OnlyHeldModifiersCount, HeldPress, ToSet
<1> QED BY <1>1, PressStart, PressStep, PTL DEF HpSpec

-----------------------------------------------------------------------------
(***************************************************************************)
(* Turns.                                                                  *)
(*                                                                         *)
(* The presses of a binding take its sounds in turn: the picks that have   *)
(* been noted go round the list they were made from, and a pick that waits *)
(* to be noted goes on from the last, unless presses overlapped. A list is *)
(* its set by rank, so each sound has one place in it.                     *)
(***************************************************************************)

\* Lists that have each sound once.
Lists == {q \in Seq(Bindings) : \A i, j \in 1 .. Len(q) : q[i] = q[j] => i = j}
JobRecs ==
  [id : Bindings \cup {HpNone}, shown : HpScopes, step : {"queued", "pick", "note", "play"},
   from : Lists, pick : Bindings \cup {HpNone}]
Turns == [pick : Bindings, from : Lists]

\* A place past the end of a list of n, counted from its beginning.
Wrapped(p, n) == IF p <= n THEN p ELSE p - n
NextAfter(list, s) == list[Wrapped(Position(list, s) + 1, Len(list))]

\* Picks of one binding, as long as it chooses from the same sounds, go round.
GoRound(turns) ==
  /\ turns \in Seq(Turns)
  /\ \A k \in 1 .. Len(turns) : turns[k].pick \in ToSet(turns[k].from)
  /\ \A i, j \in 1 .. Len(turns) :
       LET list == turns[i].from
       IN i <= j /\ j - i < Len(list) /\ (\A k \in i .. j : turns[k].from = list) =>
            Position(list, turns[j].pick) = Wrapped(Position(list, turns[i].pick) + (j - i), Len(list))

\* A pick that has not been noted goes on from the last that was.
GoesOn(job) ==
  job.step = "note" =>
    /\ job.pick \in ToSet(job.from)
    /\ job.id \in Bindings /\ hpTurns[job.id] # <<>> =>
         LET last == hpTurns[job.id][Len(hpTurns[job.id])]
         IN job.from = last.from => job.pick = NextAfter(last.from, last.pick)
KeepsTab(job) ==
  hpSettings.tabs => \A b \in ToSet(job.from) : hpTable[b].set => hpTable[b].scope \in {HpNone, job.shown}

JobFine(job) ==
  job \in JobRecs /\ (job.step # "queued" => job.from # <<>>) /\ GoesOn(job) /\ KeepsTab(job)
JobsFine == hpJobs \in Seq(JobRecs) /\ \A j \in 1 .. Len(hpJobs) : JobFine(hpJobs[j])

\* The cursor is the last pick, of the mode there is.
TurnsFine ==
  /\ hpTurns \in [Bindings -> Seq(Turns)]
  /\ \A b \in Bindings :
       /\ GoRound(hpTurns[b])
       /\ hpTurns[b] # <<>> => hpSettings.mode = "next" /\ hpCursor[b] = hpTurns[b][Len(hpTurns[b])].pick

TurnsInv == hpShown \in HpScopes /\ hpCursor \in [Bindings -> Bindings \cup {HpNone}] /\ JobsFine /\ TurnsFine

-----------------------------------------------------------------------------
(* The order of a group. *)

IdRank(S, s) == Cardinality({a \in S : a < s})

LEMMA GroupIsFinite ==
  ASSUME NEW S \in SUBSET Bindings PROVE IsFiniteSet(S) /\ Cardinality(S) \in Nat
<1>1. IsFiniteSet(Bindings)
  <2>1. IsFiniteSet(1 .. 3)
    <3>1. PICK a \in Int, b \in Int : a = 1 /\ b = 3
      OBVIOUS
    <3>2. IsFiniteSet(a .. b)
      BY FS_Interval
    <3> QED BY <3>1, <3>2
  <2> QED BY <2>1 DEF Bindings
<1>2. IsFiniteSet(S)
  BY <1>1, FS_Subset
<1> QED BY <1>2, FS_CardinalityType

LEMMA IdRankGrows ==
  ASSUME NEW S \in SUBSET Bindings, NEW s \in S
  PROVE /\ IsFiniteSet(S) /\ Cardinality(S) \in Nat /\ IdRank(S, s) \in 0 .. Cardinality(S) - 1
        /\ \A t \in S : s < t => IdRank(S, s) < IdRank(S, t)
<1>1. IsFiniteSet(S) /\ Cardinality(S) \in Nat
  BY GroupIsFinite
<1>2. \A t \in S : t \in Nat
  BY DEF Bindings
<1>3. ASSUME NEW T \in SUBSET S, NEW U \in SUBSET S, T \subseteq U, NEW t \in U, t \notin T
      PROVE Cardinality(T) \in Nat /\ Cardinality(T) < Cardinality(U)
  <2>1. IsFiniteSet(T) /\ IsFiniteSet(U)
    BY <1>1, FS_Subset
  <2>2. Cardinality(T) \in Nat /\ Cardinality(U) \in Nat
    BY <2>1, FS_CardinalityType
  <2>3. Cardinality(T) <= Cardinality(U) /\ (Cardinality(T) = Cardinality(U) => T = U)
    BY <1>3, <2>1, FS_Subset
  <2>4. T # U
    BY <1>3
  <2> QED BY <2>2, <2>3, <2>4
<1>4. ASSUME NEW t \in S, s < t PROVE IdRank(S, s) < IdRank(S, t)
  <2>1. {a \in S : a < s} \subseteq {a \in S : a < t}
    BY <1>2, <1>4
  <2>2. s \in {a \in S : a < t} /\ s \notin {a \in S : a < s}
    BY <1>2, <1>4
  <2> QED BY <1>3, <2>1, <2>2 DEF IdRank
<1>5. IdRank(S, s) \in Nat /\ IdRank(S, s) < Cardinality(S)
  <2>1. {a \in S : a < s} \subseteq S /\ s \notin {a \in S : a < s}
    BY <1>2
  <2> QED BY <1>3, <2>1 DEF IdRank
<1> QED BY <1>1, <1>4, <1>5

\* Every place of it is taken by one binding.
LEMMA IdRanksAreTaken ==
  ASSUME NEW S \in SUBSET Bindings
  PROVE \A k \in 1 .. Cardinality(S) : \E s \in S : IdRank(S, s) = k - 1
<1>1. \A s \in S : IdRank(S, s) \in 0 .. Cardinality(S) - 1
  BY IdRankGrows
<1>2. IsFiniteSet(S) /\ Cardinality(S) \in Nat
  BY GroupIsFinite
<1>3. ASSUME NEW s \in S, NEW t \in S, s # t PROVE IdRank(S, s) # IdRank(S, t)
  <2>1. s < t \/ t < s
    BY <1>3 DEF Bindings
  <2>2. IdRank(S, s) < IdRank(S, t) \/ IdRank(S, t) < IdRank(S, s)
    BY <2>1, IdRankGrows
  <2> QED BY <1>1, <1>2, <2>2
<1> DEFINE n == Cardinality(S)
           f == [s \in S |-> IdRank(S, s) + 1]
<1>4. \A s \in S : IdRank(S, s) + 1 \in 1 .. n
  BY <1>1, <1>2
<1>5. f \in Injection(S, 1 .. n)
  <2>1. f \in [S -> 1 .. n]
    BY <1>4
  <2>2. \A s, t \in S : f[s] = f[t] => s = t
    BY <1>1, <1>2, <1>3
  <2> QED BY <2>1, <2>2 DEF Injection, IsInjective
<1>6. IsFiniteSet(1 .. n) /\ Cardinality(1 .. n) = n
  BY <1>2, FS_Interval
<1>7. f \in Surjection(S, 1 .. n)
  <2> HIDE DEF f
  <2> QED BY <1>2, <1>5, <1>6, FS_Injection
<1>8. \A k \in 1 .. n : \E s \in S : f[s] = k
  BY <1>7 DEF Surjection
<1>9. ASSUME NEW k \in 1 .. n PROVE \E s \in S : IdRank(S, s) = k - 1
  <2>1. PICK s \in S : IdRank(S, s) + 1 = k
    BY <1>8
  <2> QED BY <1>1, <1>2, <2>1
<1> QED BY <1>9

LEMMA ListOrderIs ==
  ASSUME NEW S \in SUBSET Bindings
  PROVE InListOrder(S) \in Lists /\ ToSet(InListOrder(S)) \subseteq S
<1> DEFINE n == Cardinality(S)
           at(k) == CHOOSE s \in S : IdRank(S, s) = k - 1
<1>1. PICK list : list = InListOrder(S)
  OBVIOUS
<1>2. n \in Nat
  BY GroupIsFinite
<1>3. list = [k \in 1 .. n |-> at(k)]
  BY <1>1, Zenon DEF InListOrder, IdRank
<1>4. ASSUME NEW k \in 1 .. n PROVE at(k) \in S /\ IdRank(S, at(k)) = k - 1
  BY IdRanksAreTaken
<1> HIDE DEF n, at
<1>5. list \in [1 .. n -> Bindings] /\ \A k \in 1 .. n : list[k] = at(k)
  BY <1>3, <1>4
<1>6. list \in Seq(Bindings) /\ Len(list) = n /\ DOMAIN list = 1 .. n
  BY <1>2, <1>5, IsASeq, LenProperties
<1>7. ASSUME NEW i \in 1 .. n, NEW j \in 1 .. n, list[i] = list[j] PROVE i = j
  <2>1. i - 1 = j - 1
    BY <1>4, <1>5, <1>7
  <2> QED BY <1>2, <2>1
<1>8. list \in Lists
  BY <1>6, <1>7 DEF Lists
<1>9. ToSet(list) \subseteq S
  BY <1>4, <1>5, <1>6 DEF ToSet
<1> QED BY <1>1, <1>8, <1>9

LEMMA PositionIs ==
  ASSUME NEW list \in Lists
  PROVE /\ Len(list) \in Nat /\ list \in Seq(Bindings) /\ DOMAIN list = 1 .. Len(list)
        /\ \A k \in 1 .. Len(list) : Position(list, list[k]) = k /\ list[k] \in ToSet(list) /\ list[k] \in Bindings
        /\ \A s \in ToSet(list) : Position(list, s) \in 1 .. Len(list) /\ list[Position(list, s)] = s
<1>1. Len(list) \in Nat /\ DOMAIN list = 1 .. Len(list) /\ list \in Seq(Bindings)
      /\ \A i, j \in 1 .. Len(list) : list[i] = list[j] => i = j
  BY LenProperties DEF Lists
<1>2. ASSUME NEW k \in 1 .. Len(list) PROVE Position(list, list[k]) = k
  BY <1>1 DEF Position
<1>3. \A k \in 1 .. Len(list) : list[k] \in ToSet(list) /\ list[k] \in Bindings
  BY <1>1, ElementOfSeq DEF ToSet
<1>4. ASSUME NEW s \in ToSet(list) PROVE Position(list, s) \in 1 .. Len(list) /\ list[Position(list, s)] = s
  <2>1. \E k \in 1 .. Len(list) : list[k] = s
    BY <1>1 DEF ToSet
  <2> QED BY <1>1, <2>1 DEF Position
<1> QED BY <1>1, <1>2, <1>3, <1>4

-----------------------------------------------------------------------------
(* Taking turns. *)

LEMMA WrappedIs ==
  ASSUME NEW n \in Nat, NEW p \in 1 .. n, NEW d \in Nat, d + 1 < n
  PROVE /\ Wrapped(Wrapped(p + d, n) + 1, n) = Wrapped(p + (d + 1), n)
        /\ Wrapped(p, n) = p
        /\ Wrapped(p + (d + 1), n) # p
BY DEF Wrapped

\* A pick that goes on from the last one.
LEMMA TurnTaken ==
  ASSUME NEW turns, GoRound(turns), NEW turn \in Turns, turn.pick \in ToSet(turn.from),
         turns # <<>> /\ turn.from = turns[Len(turns)].from =>
           turn.pick = NextAfter(turns[Len(turns)].from, turns[Len(turns)].pick)
  PROVE GoRound(Append(turns, turn))
<1> DEFINE m == Len(turns)
           all == Append(turns, turn)
<1>1. /\ turns \in Seq(Turns) /\ m \in Nat /\ all \in Seq(Turns) /\ Len(all) = m + 1 /\ all[m + 1] = turn
      /\ \A i \in 1 .. m : all[i] = turns[i] /\ turns[i] \in Turns /\ turns[i].pick \in ToSet(turns[i].from)
  BY LenProperties, AppendProperties, ElementOfSeq DEF GoRound
<1>2. turn.from \in Lists /\ \A i \in 1 .. m : turns[i].from \in Lists
  BY <1>1 DEF Turns
<1> HIDE DEF all
<1>3. ASSUME NEW i \in 1 .. m + 1, NEW j \in 1 .. m + 1, i <= j, j - i < Len(all[i].from),
             \A k \in i .. j : all[k].from = all[i].from
      PROVE Position(all[i].from, all[j].pick)
              = Wrapped(Position(all[i].from, all[i].pick) + (j - i), Len(all[i].from))
  <2>1. PICK list \in Lists : list = all[i].from
    BY <1>1, <1>2
  <2>2. PICK n \in Nat : n = Len(list) /\ DOMAIN list = 1 .. n
    BY PositionIs
  <2>3. CASE j <= m
    <3>1. i \in 1 .. m /\ j \in 1 .. m /\ \A k \in i .. j : k \in 1 .. m
      BY <1>1, <1>3, <2>3
    <3>2. turns[i].from = list /\ \A k \in i .. j : turns[k].from = list
      BY <1>1, <1>3, <2>1, <3>1
    <3>3. Position(list, turns[j].pick) = Wrapped(Position(list, turns[i].pick) + (j - i), n)
      BY <1>3, <2>1, <2>2, <3>1, <3>2 DEF GoRound
    <3> QED BY <1>1, <2>1, <2>2, <3>1, <3>3
  <2>4. CASE j = m + 1 /\ i = m + 1
    <3>1. PICK p \in 1 .. n : p = Position(list, turn.pick)
      BY <1>1, <2>1, <2>2, <2>4, PositionIs
    <3>2. Wrapped(p + 0, n) = p /\ j - i = 0
      BY <1>1, <2>2, <2>4, <3>1 DEF Wrapped
    <3> QED BY <1>1, <2>1, <2>2, <2>4, <3>1, <3>2
  <2>5. CASE j = m + 1 /\ i \in 1 .. m
    <3>1. m \in i .. j /\ m \in 1 .. m /\ m # 0 /\ j \in i .. j /\ j - i = (m - i) + 1 /\ m - i \in Nat /\ (m - i) + 1 < n
      BY <1>1, <1>3, <2>1, <2>2, <2>5
    <3>2. turns[i].from = list /\ turns[m].from = list /\ turn.from = list /\ all[i] = turns[i]
      BY <1>1, <1>3, <2>1, <2>5, <3>1
    <3>3. turns # <<>>
      BY <3>1
    <3>4. turn.pick = NextAfter(list, turns[m].pick)
      BY <3>2, <3>3
    <3>5. PICK p \in 1 .. n : p = Position(list, turns[i].pick)
      BY <1>1, <2>2, <2>5, <3>2, PositionIs
    <3>6. PICK q \in 1 .. n : q = Position(list, turns[m].pick)
      BY <1>1, <2>2, <3>1, <3>2, PositionIs
    <3>7. q = Wrapped(p + (m - i), n)
      <4>1. \A k \in i .. m : turns[k].from = list
        <5>1. \A k \in i .. m : k \in i .. j /\ k \in 1 .. m
          BY <1>1, <2>5
        <5> QED BY <1>1, <1>3, <2>1, <5>1
      <4>2. i <= m /\ m - i < n
        BY <1>1, <2>2, <2>5, <3>1
      <4> QED BY <2>2, <2>5, <3>1, <3>2, <3>5, <3>6, <4>1, <4>2 DEF GoRound
    <3>8. Wrapped(q + 1, n) \in 1 .. n /\ turn.pick = list[Wrapped(q + 1, n)]
      BY <2>2, <3>4, <3>6 DEF Wrapped, NextAfter
    <3>9. Position(list, turn.pick) = Wrapped(q + 1, n)
      BY <2>2, <3>8, PositionIs
    <3>10. Wrapped(q + 1, n) = Wrapped(p + ((m - i) + 1), n)
      <4>1. PICK d \in Nat : d = m - i
        BY <3>1
      <4>2. d + 1 < n /\ q = Wrapped(p + d, n)
        BY <3>1, <3>7, <4>1
      <4>3. Wrapped(Wrapped(p + d, n) + 1, n) = Wrapped(p + (d + 1), n)
        BY <3>5, <4>2, WrappedIs
      <4> QED BY <4>1, <4>2, <4>3
    <3> QED BY <1>1, <2>1, <2>2, <2>5, <3>1, <3>2, <3>5, <3>9, <3>10
  <2> QED BY <1>1, <2>3, <2>4, <2>5
<1>4. \A k \in 1 .. m + 1 : all[k].pick \in ToSet(all[k].from)
  BY <1>1
<1> QED BY <1>1, <1>3, <1>4 DEF GoRound, all

-----------------------------------------------------------------------------
(* The steps of a press. *)

hpChoices == <<hpTable, hpSettings, hpCursor, hpTurns>>

LEMMA JobIsStill ==
  ASSUME NEW job, JobFine(job), UNCHANGED hpChoices
  PROVE JobFine(job)'
BY DEF JobFine, GoesOn, KeepsTab, hpChoices

LEMMA TurnsAreStill ==
  ASSUME TurnsFine, UNCHANGED hpChoices
  PROVE TurnsFine'
BY DEF TurnsFine, hpChoices

LEMMA JobsAreStill ==
  ASSUME TurnsInv, UNCHANGED hpChoices, UNCHANGED hpJobs, hpShown' \in HpScopes
  PROVE TurnsInv'
<1>1. \A j \in 1 .. Len(hpJobs) : JobFine(hpJobs[j])'
  <2> SUFFICES ASSUME NEW j \in 1 .. Len(hpJobs) PROVE JobFine(hpJobs[j])'
    OBVIOUS
  <2>1. PICK job : job = hpJobs[j]
    OBVIOUS
  <2>2. JobFine(job)
    BY <2>1 DEF TurnsInv, JobsFine
  <2>3. JobFine(job)'
    BY <2>2, JobIsStill
  <2>4. hpJobs'[j] = job
    BY <2>1
  <2> QED BY <2>3, <2>4
<1>2. JobsFine'
  BY <1>1 DEF TurnsInv, JobsFine
<1> QED BY <1>2, TurnsAreStill DEF TurnsInv, hpChoices

\* A job is another than it was.
LEMMA JobMovesOn ==
  ASSUME TurnsInv, UNCHANGED hpChoices, hpShown' = hpShown,
         NEW j \in 1 .. Len(hpJobs), NEW new, JobFine(new), hpJobs' = [hpJobs EXCEPT ![j] = new]
  PROVE TurnsInv'
<1>1. hpJobs \in Seq(JobRecs) /\ new \in JobRecs
  BY DEF TurnsInv, JobsFine, JobFine
<1>2. hpJobs' \in Seq(JobRecs) /\ Len(hpJobs') = Len(hpJobs)
      /\ \A i \in 1 .. Len(hpJobs) : hpJobs'[i] = IF i = j THEN new ELSE hpJobs[i]
  BY <1>1, ExceptSeq
<1>3. ASSUME NEW i \in 1 .. Len(hpJobs) PROVE JobFine(hpJobs[i])'
  <2>1. PICK job : job = IF i = j THEN new ELSE hpJobs[i]
    OBVIOUS
  <2>2. JobFine(job)
    BY <2>1 DEF TurnsInv, JobsFine
  <2>3. JobFine(job)'
    BY <2>2, JobIsStill
  <2>4. hpJobs'[i] = job
    BY <1>2, <2>1
  <2> QED BY <2>3, <2>4
<1>4. JobsFine'
  BY <1>2, <1>3 DEF JobsFine
<1> QED BY <1>4, TurnsAreStill DEF TurnsInv, hpChoices

\* Or is over.
LEMMA JobEnds ==
  ASSUME TurnsInv, UNCHANGED hpChoices, hpShown' = hpShown,
         NEW j \in 1 .. Len(hpJobs), hpJobs' = WithoutJob(j)
  PROVE TurnsInv'
<1>1. hpJobs \in Seq(JobRecs) /\ Len(hpJobs) \in Nat
  BY LenProperties DEF TurnsInv, JobsFine
<1>2. PICK n \in Nat : n = Len(hpJobs) - 1
  BY <1>1
<1>3. hpJobs' = [i \in 1 .. n |-> IF i < j THEN hpJobs[i] ELSE hpJobs[i + 1]]
  BY <1>2 DEF WithoutJob
<1>4. \A i \in 1 .. n : i \in 1 .. Len(hpJobs) /\ i + 1 \in 1 .. Len(hpJobs)
  BY <1>1, <1>2
<1>5. \A i \in 1 .. n : hpJobs[i] \in JobRecs /\ hpJobs[i + 1] \in JobRecs
  BY <1>1, <1>4, ElementOfSeq
<1>6. hpJobs' \in [1 .. n -> JobRecs]
  BY <1>3, <1>5
<1>7. hpJobs' \in Seq(JobRecs) /\ Len(hpJobs') = n
  BY <1>2, <1>6, IsASeq, LenProperties
<1>8. ASSUME NEW i \in 1 .. n PROVE JobFine(hpJobs[i])'
  <2>1. PICK job : job = IF i < j THEN hpJobs[i] ELSE hpJobs[i + 1]
    OBVIOUS
  <2>2. JobFine(job)
    BY <1>4, <2>1 DEF TurnsInv, JobsFine
  <2>3. JobFine(job)'
    BY <2>2, JobIsStill
  <2>4. hpJobs'[i] = job
    BY <1>3, <2>1
  <2> QED BY <2>3, <2>4
<1>9. JobsFine'
  BY <1>7, <1>8 DEF JobsFine
<1> QED BY <1>9, TurnsAreStill DEF TurnsInv, hpChoices

\* A press is handed to a worker.
LEMMA HandleTurns ==
  ASSUME PressesHeld, TurnsInv, HandleHotkey
  PROVE TurnsInv'
<1>1. UNCHANGED hpChoices /\ hpShown' = hpShown
  BY DEF HandleHotkey, hpLibrary, hpChoices
<1>2. CASE UNCHANGED hpJobs
  BY <1>1, <1>2, JobsAreStill DEF TurnsInv
<1>3. CASE hpJobs' = Append(hpJobs, Job(Head(hpPosted)))
  <2>1. hpPosted # <<>> /\ hpPosted \in Seq(HeldPress)
    BY DEF HandleHotkey, PressesHeld
  <2>2. Head(hpPosted) \in HeldPress
    BY <2>1, HeadTailProperties
  <2>3. Head(hpPosted).id \in Bindings \cup {HpNone}
    BY <2>2 DEF HeldPress, Press
  <2>4. PICK new : new = Job(Head(hpPosted))
    OBVIOUS
  <2>5. new = [id |-> Head(hpPosted).id, shown |-> hpShown, step |-> "queued", from |-> <<>>, pick |-> HpNone]
    BY <2>4 DEF Job
  <2>6. <<>> \in Lists /\ ToSet(<<>>) = {}
    BY DEF Lists, ToSet
  <2>7. new \in JobRecs
    BY <2>3, <2>5, <2>6 DEF JobRecs, TurnsInv
  <2>8. JobFine(new)
    BY <2>5, <2>6, <2>7 DEF JobFine, GoesOn, KeepsTab
  <2>9. hpJobs \in Seq(JobRecs) /\ hpJobs' = Append(hpJobs, new)
    BY <1>3, <2>4 DEF TurnsInv, JobsFine
  <2>10. PICK n \in Nat : n = Len(hpJobs)
    BY <2>9, LenProperties
  <2>11. hpJobs' \in Seq(JobRecs) /\ Len(hpJobs') = n + 1 /\ hpJobs'[n + 1] = new
         /\ \A i \in 1 .. n : hpJobs'[i] = hpJobs[i]
    BY <2>7, <2>9, <2>10, AppendProperties
  <2>12. ASSUME NEW i \in 1 .. n + 1 PROVE JobFine(hpJobs[i])'
    <3>1. PICK job : job = IF i = n + 1 THEN new ELSE hpJobs[i]
      OBVIOUS
    <3>2. JobFine(job)
      BY <2>8, <2>10, <3>1 DEF TurnsInv, JobsFine
    <3>3. JobFine(job)'
      BY <1>1, <3>2, JobIsStill
    <3>4. hpJobs'[i] = job
      BY <2>11, <3>1
    <3> QED BY <3>3, <3>4
  <2>13. JobsFine'
    BY <2>11, <2>12 DEF JobsFine
  <2> QED BY <1>1, <2>13, TurnsAreStill DEF TurnsInv, hpChoices
<1> QED BY <1>2, <1>3 DEF HandleHotkey

\* What a press may pick from is of the tab that showed.
LEMMA EligibleIs ==
  ASSUME NEW group \in SUBSET Bindings, NEW shown
  PROVE /\ Eligible(group, shown) \in Lists
        /\ hpSettings.tabs => \A b \in ToSet(Eligible(group, shown)) : hpTable[b].scope \in {HpNone, shown}
<1> DEFINE some == {b \in group : hpSettings.tabs => InScope(b, shown)}
<1>1. some \in SUBSET Bindings
  OBVIOUS
<1>2. <<>> \in Lists /\ ToSet(<<>>) = {}
  BY DEF Lists, ToSet
<1>3. Eligible(group, shown) = <<>> \/ Eligible(group, shown) = InListOrder(some)
  BY DEF Eligible
<1>4. hpSettings.tabs => \A b \in some : hpTable[b].scope \in {HpNone, shown}
  BY DEF InScope
<1> HIDE DEF some
<1>5. InListOrder(some) \in Lists /\ ToSet(InListOrder(some)) \subseteq some
  BY <1>1, ListOrderIs
<1> QED BY <1>2, <1>3, <1>4, <1>5

LEMMA LoadTurns ==
  ASSUME TurnsInv, LoadGroup
  PROVE TurnsInv'
<1>1. PICK j \in DOMAIN hpJobs :
        hpJobs' = IF Eligible(Group(hpJobs[j].id), hpJobs[j].shown) = <<>> THEN WithoutJob(j)
                  ELSE [hpJobs EXCEPT ![j].step = "pick",
                                      ![j].from = Eligible(Group(hpJobs[j].id), hpJobs[j].shown)]
  BY Zenon DEF LoadGroup
<1>2. UNCHANGED hpChoices /\ hpShown' = hpShown
  BY DEF LoadGroup, hpLibrary, hpLoop, hpChoices
<1>3. j \in 1 .. Len(hpJobs) /\ JobFine(hpJobs[j]) /\ hpJobs \in Seq(JobRecs)
  BY DEF TurnsInv, JobsFine
<1>4. PICK some, job : some = Eligible(Group(hpJobs[j].id), hpJobs[j].shown) /\ job = hpJobs[j]
  OBVIOUS
<1>5. some \in Lists /\ (hpSettings.tabs => \A b \in ToSet(some) : hpTable[b].scope \in {HpNone, job.shown})
  <2>1. Group(job.id) \in SUBSET Bindings
    BY DEF Group
  <2> QED BY <1>4, <2>1, EligibleIs
<1>6. CASE some = <<>>
  BY <1>1, <1>2, <1>3, <1>4, <1>6, JobEnds
<1>7. CASE some # <<>>
  <2>1. PICK new : new = [job EXCEPT !.step = "pick", !.from = some]
    OBVIOUS
  <2>2. job \in JobRecs
    BY <1>3, <1>4 DEF JobFine
  <2>3. new \in JobRecs /\ new.step = "pick" /\ new.from = some /\ new.shown = job.shown
    BY <1>5, <2>1, <2>2 DEF JobRecs
  <2>4. JobFine(new)
    BY <1>5, <1>7, <2>3 DEF JobFine, GoesOn, KeepsTab
  <2>5. hpJobs' = [hpJobs EXCEPT ![j] = new]
    BY <1>1, <1>3, <1>4, <1>7, <2>1
  <2> QED BY <1>2, <1>3, <2>4, <2>5, JobMovesOn
<1> QED BY <1>6, <1>7

\* What is picked goes on from the last pick.
LEMMA PickGoesOn ==
  ASSUME TurnsInv, NEW list \in Lists, list # <<>>, NEW last,
         NEW s \in Picks(list, last)
  PROVE /\ s \in ToSet(list) /\ s \in Bindings
        /\ hpSettings.mode = "next" /\ last \in ToSet(list) => s = NextAfter(list, last)
<1> DEFINE at == IF last \in ToSet(list) THEN Position(list, last) ELSE 0
<1>1. PICK n \in Nat : n = Len(list) /\ list \in Seq(Bindings) /\ n # 0
  BY PositionIs, EmptySeq
<1>2. /\ \A k \in 1 .. n : list[k] \in ToSet(list) /\ list[k] \in Bindings
      /\ \A b \in ToSet(list) : Position(list, b) \in 1 .. n /\ list[Position(list, b)] = b
  BY <1>1, PositionIs
<1>3. 1 \in 1 .. n /\ \A b \in ToSet(list) : b \in Bindings
  BY <1>1, <1>2
<1>4. at \in 0 .. n /\ (last \in ToSet(list) => at \in 1 .. n /\ at = Position(list, last) /\ list[at] = last)
      /\ (last \notin ToSet(list) => at = 0)
  BY <1>1, <1>2
<1>5. (at % n) + 1 \in 1 .. n /\ (at # 0 => (at % n) + 1 = Wrapped(at + 1, n))
  <2>1. ASSUME at = n PROVE at % n = 0
    BY <1>1, <2>1
  <2>2. ASSUME at # n PROVE at % n = at
    BY <1>1, <1>4, <2>2
  <2> HIDE DEF at
  <2> QED BY <1>1, <1>4, <2>1, <2>2 DEF Wrapped
<1>6. \/ hpSettings.mode = "random" /\ s \in ToSet(list)
      \/ hpSettings.mode = "next" /\ n > 1 /\ s = list[(at % n) + 1]
      \/ ~(hpSettings.mode = "next" /\ n > 1) /\ s = IF at = 0 THEN list[1] ELSE last
  BY <1>1 DEF Picks
<1> HIDE DEF at
<1>7. s \in ToSet(list) /\ s \in Bindings
  BY <1>2, <1>3, <1>4, <1>5, <1>6
<1>8. ASSUME hpSettings.mode = "next", last \in ToSet(list) PROVE s = NextAfter(list, last)
  <2>1. at \in 1 .. n /\ at = Position(list, last) /\ list[at] = last
    BY <1>4, <1>8
  <2>2. NextAfter(list, last) = list[Wrapped(at + 1, n)]
    BY <1>1, <2>1 DEF NextAfter
  <2>3. CASE n > 1
    BY <1>5, <1>6, <1>8, <2>1, <2>2, <2>3
  <2>4. CASE n = 1
    <3>1. at = 1 /\ Wrapped(at + 1, n) = 1 /\ s = last
      BY <1>6, <1>8, <2>1, <2>4 DEF Wrapped
    <3> QED BY <2>1, <2>2, <3>1
  <2> QED BY <1>1, <2>3, <2>4
<1> QED BY <1>7, <1>8

LEMMA PickTurns ==
  ASSUME TurnsInv, PickSound
  PROVE TurnsInv'
<1>1. PICK j \in DOMAIN hpJobs :
        /\ hpJobs[j].step = "pick"
        /\ \E s \in Picks(hpJobs[j].from, hpCursor[hpJobs[j].id]) :
             hpJobs' = [hpJobs EXCEPT ![j].step = "note", ![j].pick = s]
  BY Zenon DEF PickSound
<1>2. PICK s \in Picks(hpJobs[j].from, hpCursor[hpJobs[j].id]) :
        hpJobs' = [hpJobs EXCEPT ![j].step = "note", ![j].pick = s]
  BY <1>1
<1>3. UNCHANGED hpChoices /\ hpShown' = hpShown
  BY DEF PickSound, hpLibrary, hpLoop, hpChoices
<1>4. j \in 1 .. Len(hpJobs) /\ JobFine(hpJobs[j]) /\ hpJobs \in Seq(JobRecs)
  BY DEF TurnsInv, JobsFine
<1>5. PICK job : job = hpJobs[j]
  OBVIOUS
<1>6. job \in JobRecs /\ job.step = "pick" /\ job.from # <<>> /\ KeepsTab(job)
  BY <1>1, <1>4, <1>5 DEF JobFine
<1>7. job.from \in Lists /\ s \in Picks(job.from, hpCursor[job.id])
  BY <1>2, <1>5, <1>6 DEF JobRecs
<1>8. s \in ToSet(job.from) /\ s \in Bindings
      /\ (hpSettings.mode = "next" /\ hpCursor[job.id] \in ToSet(job.from) => s = NextAfter(job.from, hpCursor[job.id]))
  BY <1>6, <1>7, PickGoesOn
<1>9. PICK new : new = [job EXCEPT !.step = "note", !.pick = s]
  OBVIOUS
<1>10. new \in JobRecs /\ new.step = "note" /\ new.pick = s /\ new.from = job.from /\ new.id = job.id /\ new.shown = job.shown
  BY <1>6, <1>8, <1>9 DEF JobRecs
<1>11. GoesOn(new)
  <2>1. ASSUME new.id \in Bindings, hpTurns[new.id] # <<>>, NEW last, last = hpTurns[new.id][Len(hpTurns[new.id])],
               new.from = last.from
        PROVE new.pick = NextAfter(last.from, last.pick)
    <3>1. PICK turns : turns = hpTurns[new.id]
      OBVIOUS
    <3>2. turns \in Seq(Turns) /\ turns # <<>> /\ GoRound(turns) /\ last = turns[Len(turns)]
      BY <2>1, <3>1 DEF TurnsInv, TurnsFine
    <3>3. Len(turns) \in 1 .. Len(turns)
      BY <3>2, LenProperties, EmptySeq
    <3>4. last.pick \in ToSet(last.from)
      BY <3>2, <3>3 DEF GoRound
    <3>5. hpSettings.mode = "next" /\ hpCursor[new.id] = last.pick
      BY <2>1 DEF TurnsInv, TurnsFine
    <3> QED BY <1>8, <1>10, <2>1, <3>4, <3>5
  <2> QED BY <1>8, <1>10, <2>1 DEF GoesOn
<1>12. JobFine(new)
  BY <1>6, <1>10, <1>11 DEF JobFine, KeepsTab
<1>13. hpJobs' = [hpJobs EXCEPT ![j] = new]
  BY <1>2, <1>4, <1>5, <1>9
<1> QED BY <1>3, <1>4, <1>12, <1>13, JobMovesOn

LEMMA PlayTurns ==
  ASSUME TurnsInv, PlayPick
  PROVE TurnsInv'
<1>1. PICK j \in DOMAIN hpJobs : hpJobs' = WithoutJob(j)
  BY Zenon DEF PlayPick
<1>2. UNCHANGED hpChoices /\ hpShown' = hpShown
  BY DEF PlayPick, hpLibrary, hpLoop, hpChoices
<1>3. j \in 1 .. Len(hpJobs)
  BY DEF TurnsInv, JobsFine
<1> QED BY <1>1, <1>2, <1>3, JobEnds

\* What is noted is the next turn, or presses overlapped and it begins anew.
LEMMA NoteTurns ==
  ASSUME TurnsInv, NotePick
  PROVE TurnsInv'
<1>1. PICK j \in DOMAIN hpJobs :
        /\ hpJobs[j].step = "note"
        /\ hpCursor' = [hpCursor EXCEPT ![hpJobs[j].id] = hpJobs[j].pick]
        /\ hpTurns' = IF hpSettings.mode # "next"
                          \/ \E i \in DOMAIN hpJobs \ {j} : hpJobs[i].id = hpJobs[j].id /\ hpJobs[i].step = "note"
                       THEN [hpTurns EXCEPT ![hpJobs[j].id] = <<>>]
                       ELSE [hpTurns EXCEPT ![hpJobs[j].id] =
                               Append(@, [pick |-> hpJobs[j].pick, from |-> hpJobs[j].from])]
        /\ hpJobs' = [hpJobs EXCEPT ![j].step = "play"]
  BY Zenon DEF NotePick
<1>2. UNCHANGED <<hpTable, hpSettings, hpShown>>
  BY DEF NotePick, hpLibrary, hpLoop
<1>3. j \in 1 .. Len(hpJobs) /\ JobFine(hpJobs[j]) /\ hpJobs \in Seq(JobRecs) /\ DOMAIN hpJobs = 1 .. Len(hpJobs)
  BY DEF TurnsInv, JobsFine
<1>4. PICK job : job = hpJobs[j]
  OBVIOUS
<1>5. job \in JobRecs /\ job.step = "note" /\ GoesOn(job) /\ KeepsTab(job) /\ job.from # <<>>
  BY <1>1, <1>3, <1>4 DEF JobFine
<1>6. PICK turn : turn = [pick |-> job.pick, from |-> job.from]
  OBVIOUS
<1>7. job.from \in Lists /\ job.pick \in ToSet(job.from) /\ job.pick \in Bindings
  <2>1. job.from \in Lists /\ job.pick \in ToSet(job.from)
    BY <1>5 DEF GoesOn, JobRecs
  <2> QED BY <2>1, PositionIs
<1>8. turn \in Turns /\ turn.pick = job.pick /\ turn.from = job.from
  BY <1>6, <1>7 DEF Turns
<1>9. PICK new : new = [job EXCEPT !.step = "play"]
  OBVIOUS
<1>10. new \in JobRecs /\ new.step = "play" /\ new.from = job.from /\ new.shown = job.shown
  BY <1>5, <1>9 DEF JobRecs
<1>11. hpJobs' = [hpJobs EXCEPT ![j] = new]
  BY <1>1, <1>3, <1>4, <1>9
<1>12. hpJobs' \in Seq(JobRecs) /\ Len(hpJobs') = Len(hpJobs)
       /\ \A i \in 1 .. Len(hpJobs) : hpJobs'[i] = IF i = j THEN new ELSE hpJobs[i]
  BY <1>3, <1>10, <1>11, ExceptSeq
<1>13. PICK begins \in BOOLEAN :
         begins <=> \/ hpSettings.mode # "next"
                    \/ \E i \in DOMAIN hpJobs \ {j} : hpJobs[i].id = job.id /\ hpJobs[i].step = "note"
  OBVIOUS
<1>14. hpTurns' = IF begins THEN [hpTurns EXCEPT ![job.id] = <<>>]
                  ELSE [hpTurns EXCEPT ![job.id] = Append(@, turn)]
  BY <1>1, <1>4, <1>6, <1>13
<1>15. \A b \in Bindings : b # job.id => hpTurns'[b] = hpTurns[b] /\ hpCursor'[b] = hpCursor[b]
  BY <1>1, <1>4, <1>14 DEF TurnsInv, TurnsFine
<1>16. hpCursor' \in [Bindings -> Bindings \cup {HpNone}]
  BY <1>1, <1>4, <1>7 DEF TurnsInv
<1>17. ASSUME job.id \in Bindings
       PROVE /\ hpTurns'[job.id] \in Seq(Turns) /\ GoRound(hpTurns'[job.id])
             /\ begins => hpTurns'[job.id] = <<>>
             /\ hpTurns'[job.id] # <<>> =>
                  hpSettings.mode = "next" /\ hpCursor'[job.id] = hpTurns'[job.id][Len(hpTurns'[job.id])].pick
  <2>1. PICK turns : turns = hpTurns[job.id]
    OBVIOUS
  <2>2. turns \in Seq(Turns) /\ GoRound(turns)
    BY <1>17, <2>1 DEF TurnsInv, TurnsFine
  <2>3. hpCursor'[job.id] = job.pick
    BY <1>1, <1>4, <1>17 DEF TurnsInv
  <2>4. CASE begins
    <3>1. hpTurns'[job.id] = <<>>
      BY <1>14, <1>17, <2>4 DEF TurnsInv, TurnsFine
    <3>2. GoRound(<<>>) /\ <<>> \in Seq(Turns)
      BY EmptySeq DEF GoRound
    <3> QED BY <3>1, <3>2
  <2>5. CASE ~begins
    <3>1. hpTurns'[job.id] = Append(turns, turn)
      BY <1>14, <1>17, <2>1, <2>5 DEF TurnsInv, TurnsFine
    <3>2. turns # <<>> /\ turn.from = turns[Len(turns)].from =>
            turn.pick = NextAfter(turns[Len(turns)].from, turns[Len(turns)].pick)
      BY <1>5, <1>8, <1>17, <2>1 DEF GoesOn
    <3>3. turn.pick \in ToSet(turn.from)
      BY <1>7, <1>8
    <3>4. GoRound(Append(turns, turn))
      BY <1>8, <2>2, <3>2, <3>3, TurnTaken
    <3>5. Append(turns, turn) \in Seq(Turns)
          /\ Append(turns, turn)[Len(Append(turns, turn))] = turn
      BY <1>8, <2>2, AppendProperties
    <3>6. hpSettings.mode = "next"
      BY <1>13, <2>5
    <3> QED BY <1>8, <2>3, <2>5, <3>1, <3>4, <3>5, <3>6
  <2> QED BY <2>4, <2>5
<1>18. TurnsFine'
  <2>1. DOMAIN hpTurns' = Bindings
    BY <1>14 DEF TurnsInv, TurnsFine
  <2>2. ASSUME NEW b \in Bindings
        PROVE /\ hpTurns'[b] \in Seq(Turns) /\ GoRound(hpTurns'[b])
              /\ hpTurns'[b] # <<>> =>
                   hpSettings.mode = "next" /\ hpCursor'[b] = hpTurns'[b][Len(hpTurns'[b])].pick
    <3>1. CASE b = job.id
      BY <1>17, <3>1
    <3>2. CASE b # job.id
      BY <1>15, <3>2 DEF TurnsInv, TurnsFine
    <3> QED BY <3>1, <3>2
  <2>3. hpTurns' \in [Bindings -> Seq(Turns)]
    <3>1. hpTurns' = [b \in Bindings |-> hpTurns'[b]]
      BY <1>14, <2>1 DEF TurnsInv, TurnsFine
    <3> QED BY <2>2, <3>1
  <2> QED BY <1>2, <2>2, <2>3 DEF TurnsFine
<1>19. ASSUME NEW i \in 1 .. Len(hpJobs) PROVE JobFine(hpJobs[i])'
  <2>1. PICK one : one = IF i = j THEN new ELSE hpJobs[i]
    OBVIOUS
  <2>2. one \in JobRecs /\ (one.step # "queued" => one.from # <<>>)
    <3>1. CASE i = j
      BY <1>5, <1>10, <2>1, <3>1
    <3>2. CASE i # j
      BY <2>1, <3>2 DEF TurnsInv, JobsFine, JobFine
    <3> QED BY <3>1, <3>2
  <2>3. KeepsTab(one)'
    <3>1. CASE i = j
      BY <1>2, <1>5, <1>10, <2>1, <3>1 DEF KeepsTab
    <3>2. CASE i # j
      BY <1>2, <2>1, <3>2 DEF TurnsInv, JobsFine, JobFine, KeepsTab
    <3> QED BY <3>1, <3>2
  <2>4. GoesOn(one)'
    <3>1. CASE i = j
      BY <1>10, <2>1, <3>1 DEF GoesOn
    <3>2. CASE i # j /\ one.step = "note" /\ one.id = job.id
      <4>1. begins
        BY <1>3, <1>13, <2>1, <3>2
      <4>2. one.pick \in ToSet(one.from)
        BY <2>1, <3>2 DEF TurnsInv, JobsFine, JobFine, GoesOn
      <4>3. one.id \in Bindings => hpTurns'[one.id] = <<>>
        BY <1>17, <3>2, <4>1
      <4> QED BY <4>2, <4>3 DEF GoesOn
    <3>3. CASE i # j /\ one.step = "note" /\ one.id # job.id
      <4>1. GoesOn(one)
        BY <2>1, <3>3 DEF TurnsInv, JobsFine, JobFine
      <4>2. one.id \in Bindings => hpTurns'[one.id] = hpTurns[one.id]
        BY <1>15, <3>3
      <4> QED BY <3>3, <4>1, <4>2 DEF GoesOn
    <3>4. CASE one.step # "note"
      BY <3>4 DEF GoesOn
    <3> QED BY <3>1, <3>2, <3>3, <3>4
  <2>5. JobFine(one)'
    BY <2>2, <2>3, <2>4 DEF JobFine
  <2>6. hpJobs'[i] = one
    BY <1>12, <2>1
  <2> QED BY <2>5, <2>6
<1>20. JobsFine'
  BY <1>12, <1>19 DEF JobsFine
<1> QED BY <1>2, <1>16, <1>18, <1>20 DEF TurnsInv

\* A key that is changed leaves the scope, and a sound that is deleted is not asked for.
LEMMA EditTurns ==
  ASSUME PressTypes, TurnsInv, EditBinding
  PROVE TurnsInv'
<1>1. UNCHANGED <<hpSettings, hpShown, hpCursor, hpTurns, hpJobs>>
  BY DEF EditBinding, hpLoop, hpWork
<1>2. \A b \in Bindings : hpTable'[b].set => hpTable[b].set /\ hpTable'[b].scope = hpTable[b].scope
  <2>1. PICK a \in Bindings : hpTable' \in {[hpTable EXCEPT ![a] = Unbound],
                                           [hpTable EXCEPT ![a].chord = IF @ = {} THEN {"ctrl"} ELSE {}]}
    BY DEF EditBinding
  <2>2. CASE hpTable' = [hpTable EXCEPT ![a] = Unbound]
    BY <2>2 DEF Unbound, PressTypes
  <2>3. CASE hpTable' = [hpTable EXCEPT ![a].chord = IF @ = {} THEN {"ctrl"} ELSE {}]
    BY <2>3 DEF PressTypes
  <2> QED BY <2>1, <2>2, <2>3
<1>3. ASSUME NEW j \in 1 .. Len(hpJobs) PROVE JobFine(hpJobs[j])'
  <2>1. PICK job : job = hpJobs[j]
    OBVIOUS
  <2>2. JobFine(job)
    BY <2>1 DEF TurnsInv, JobsFine
  <2>3. GoesOn(job)'
    BY <1>1, <2>2 DEF JobFine, GoesOn
  <2>4. job.from \in Lists
    BY <2>2 DEF JobFine, JobRecs
  <2>5. \A b \in ToSet(job.from) : b \in Bindings
    BY <2>4, PositionIs
  <2>6. KeepsTab(job)'
    BY <1>1, <1>2, <2>2, <2>5 DEF JobFine, KeepsTab
  <2>7. JobFine(job)'
    BY <2>2, <2>3, <2>6 DEF JobFine
  <2> QED BY <1>1, <2>1, <2>7
<1>4. JobsFine'
  BY <1>1, <1>3 DEF TurnsInv, JobsFine
<1>5. TurnsFine'
  BY <1>1 DEF TurnsInv, TurnsFine
<1> QED BY <1>1, <1>4, <1>5 DEF TurnsInv

LEMMA TurnsStart == HpInit => TurnsInv
<1> SUFFICES ASSUME HpInit PROVE TurnsInv
  OBVIOUS
<1>1. hpJobs = <<>> /\ hpShown \in HpScopes /\ hpCursor = [b \in Bindings |-> HpNone]
      /\ hpTurns = [b \in Bindings |-> <<>>]
  BY DEF HpInit
<1>2. JobsFine
  BY <1>1, EmptySeq DEF JobsFine
<1>3. GoRound(<<>>) /\ <<>> \in Seq(Turns)
  BY EmptySeq DEF GoRound
<1>4. TurnsFine
  BY <1>1, <1>3 DEF TurnsFine
<1> QED BY <1>1, <1>2, <1>4 DEF TurnsInv

LEMMA TurnsStep == PressInv /\ TurnsInv /\ [HpNext]_hpVars => TurnsInv'
<1> SUFFICES ASSUME PressInv, TurnsInv, [HpNext]_hpVars PROVE TurnsInv'
  OBVIOUS
<1>1. ASSUME UNCHANGED <<hpTable, hpSettings, hpWork>>, hpShown' \in HpScopes PROVE TurnsInv'
  BY <1>1, JobsAreStill DEF hpWork, hpChoices
<1>2. hpShown \in HpScopes
  BY DEF TurnsInv
<1>3. CASE EditBinding
  BY <1>3, EditTurns DEF PressInv
<1>4. CASE HandleHotkey
  BY <1>4, HandleTurns DEF PressInv
<1>5. CASE LoadGroup
  BY <1>5, LoadTurns
<1>6. CASE PickSound
  BY <1>6, PickTurns
<1>7. CASE NotePick
  BY <1>7, NoteTurns
<1>8. CASE PlayPick
  BY <1>8, PlayTurns
<1>9. CASE ShowOrRecord
  <2>1. hpShown' \in HpScopes
    BY <1>2, <1>9 DEF ShowOrRecord
  <2>2. UNCHANGED <<hpTable, hpSettings, hpWork>>
    BY <1>9 DEF ShowOrRecord, hpLibrary
  <2> QED BY <1>1, <2>1, <2>2
<1>10. CASE Project \/ InstallSwhkd \/ Modifier \/ Strike \/ Listen \/ DaemonWrites \/ ReadLine
  BY <1>1, <1>2, <1>10
  DEF Project, InstallSwhkd, Modifier, Strike, Listen, DaemonWrites, ReadLine, hpLibrary, hpLoop
<1>11. CASE PostPress
  BY <1>1, <1>2, <1>11 DEF PostPress, hpLibrary
<1>12. CASE UNCHANGED hpVars
  BY <1>1, <1>2, <1>12 DEF hpVars, hpLibrary, hpLoop
<1> QED BY <1>3, <1>4, <1>5, <1>6, <1>7, <1>8, <1>9, <1>10, <1>11, <1>12 DEF HpNext

\* Two different turns of one round are two sounds.
LEMMA TurnsDiffer == TurnsInv => PressesTakeTurns
<1> SUFFICES ASSUME TurnsInv PROVE PressesTakeTurns
  OBVIOUS
<1>1. PressesKeepTheirTab
  <2>1. DOMAIN hpJobs = 1 .. Len(hpJobs)
    BY DEF TurnsInv, JobsFine
  <2>2. \A j \in 1 .. Len(hpJobs) : KeepsTab(hpJobs[j])
    BY DEF TurnsInv, JobsFine, JobFine
  <2> QED BY <2>1, <2>2 DEF PressesKeepTheirTab, KeepsTab
<1>2. ASSUME NEW b \in Bindings, NEW i \in DOMAIN hpTurns[b], NEW j \in DOMAIN hpTurns[b],
             i < j, j - i < Len(hpTurns[b][i].from),
             \A k \in i .. j : hpTurns[b][k].from = hpTurns[b][i].from
      PROVE hpTurns[b][i].pick # hpTurns[b][j].pick
  <2>1. PICK turns : turns = hpTurns[b]
    OBVIOUS
  <2>2. turns \in Seq(Turns) /\ GoRound(turns)
    BY <2>1 DEF TurnsInv, TurnsFine
  <2>3. DOMAIN turns = 1 .. Len(turns) /\ Len(turns) \in Nat /\ i \in 1 .. Len(turns) /\ j \in 1 .. Len(turns)
    BY <2>1, <2>2, LenProperties
  <2>4. PICK list : list = turns[i].from
    OBVIOUS
  <2>5. turns[i] \in Turns
    BY <2>2, <2>3, ElementOfSeq
  <2>6. list \in Lists
    BY <2>4, <2>5 DEF Turns
  <2>7. PICK n \in Nat : n = Len(list)
    BY <2>6, PositionIs
  <2>8. turns[i].pick \in ToSet(list)
    BY <2>2, <2>3, <2>4 DEF GoRound
  <2>9. PICK p \in 1 .. n : p = Position(list, turns[i].pick)
    BY <2>6, <2>7, <2>8, PositionIs
  <2>10. Position(list, turns[j].pick) = Wrapped(p + (j - i), n)
    <3>1. i <= j /\ j - i < n /\ \A k \in i .. j : turns[k].from = list
      BY <1>2, <2>1, <2>3, <2>4, <2>7
    <3> QED BY <2>2, <2>3, <2>4, <2>7, <2>9, <3>1 DEF GoRound
  <2>11. Wrapped(p + (j - i), n) # p
    <3>1. j - i \in 1 .. n - 1
      BY <1>2, <2>1, <2>3, <2>4, <2>7
    <3> QED BY <2>7, <2>9, <3>1 DEF Wrapped
  <2> QED BY <2>1, <2>9, <2>10, <2>11
<1> QED BY <1>1, <1>2 DEF PressesTakeTurns

\* Every press chooses from the tab that showed, and the presses of a binding
\* that do not overlap take the sounds in turn, for any tables, tabs and
\* numbers of workers (load_hotkey_group and select_from_group).
THEOREM TurnsAreTaken == HpSpec => []PressesTakeTurns
<1>1. HpInit => PressInv /\ TurnsInv
  BY PressStart, TurnsStart
<1>2. PressInv /\ TurnsInv /\ [HpNext]_hpVars => (PressInv /\ TurnsInv)'
  BY PressStep, TurnsStep
<1>3. PressInv /\ TurnsInv => PressesTakeTurns
  BY TurnsDiffer
<1> QED BY <1>1, <1>2, <1>3, PTL DEF HpSpec
=============================================================================
