-------------------------------- MODULE Kiosk --------------------------------
(***************************************************************************)
(* The time clock app on an employee's device (apps/mobile/App.tsx) over   *)
(* the API.  The device remembers, in memory and on its disk, who has      *)
(* clocked in on it and which tips it has submitted, and decides by that   *)
(* memory what it asks of its user.  What it writes to the disk it does     *)
(* not always wait for.  The API decides by its tables, which sweeps,       *)
(* administrators and other devices change meanwhile; answers get lost,    *)
(* and the app may be ended and started again at any time.                 *)
(*                                                                         *)
(* The user may choose any name and action before a tap, so neither field  *)
(* is a variable, nor are the rosters that only complete a name: whoever   *)
(* is or was in a roster can be chosen.  PINs, coordinates and overrides   *)
(* are an answer "refused".  The requests of PunchClock are single steps.  *)
(* The disk (AsyncStorage, external) carries out what it is asked for in   *)
(* the order asked, does not fail, and loses what it has not yet carried   *)
(* out when the app ends.                                                  *)
(***************************************************************************)
EXTENDS Integers, Sequences, FiniteSets

CONSTANTS
    Employees,
    Servers,        \* employees who must declare tips
    DayLength,      \* slots of a day
    Ahead,          \* slots by which UTC is ahead of the tenant's time zone
    EditWindow,     \* days on which tips can be submitted
    Last,           \* bound: the last instant
    MaxFaults,      \* bound: lost answers, apps that end too early, hasty taps
    MaxEvents       \* bound: what others do to the tables

VARIABLES
    now,
    latest,     \* API: the type of each employee's latest punch
    autoOuts,   \* API: days of automatic clock-outs
    tips,       \* API: declared tips, by employee and day
    deleted,    \* API: employees that are not found any more
    session,    \* device: activeShift
    stored,     \* disk: the same
    removing,   \* disk: the removal of it is asked for and not carried out
    submitted,  \* device: tipsSubmittedByDay
    saved,      \* disk: the same
    writes,     \* disk: the values of it that are asked for and not written
    bootTips,   \* device: what loadTipSubmissionCache has read
    tipsAsked,  \* device: serverTipsRequired
    pendingTip, \* device: pendingTipWorkDate
    refusal,    \* device: the tips it has last asked for instead of a punch
    punch, tip, \* device: the handlers handlePunch and handleSubmitTips
    boot,       \* device: the shift that loadActiveShift has read
    resolved,   \* device: resolvedApiBase is known
    touched,    \* history: whose rows others have changed, and how
    faults, events

vars == <<now, latest, autoOuts, tips, deleted, session, stored, removing, submitted, saved,
          writes, bootTips, tipsAsked, pendingTip, refusal, punch, tip, boot, resolved, touched,
          faults, events>>

apiVars == <<latest, autoOuts, tips, deleted>>
shiftVars == <<session, stored, removing>>
tipVars == <<submitted, tipsAsked, pendingTip>>
diskTips == <<saved, writes, bootTips>>
worldVars == <<now, touched, events>>

None == "none"
Loaded == "loaded"
Active == {"IN", "BREAK"}
Types == Active \cup {"OUT"}
Days == -1 .. Last + 2
NoDay == -2
Somebody == Employees \cup {None}

ASSUME KioskConstants ==
    /\ Servers \subseteq Employees /\ {None, Loaded} \cap Employees = {}
    /\ DayLength \in Nat \ {0} /\ Ahead \in -DayLength .. DayLength
    /\ EditWindow \in Nat \ {0} /\ Last \in Nat
    /\ MaxFaults \in Nat /\ MaxEvents \in Nat

(* The day of an instant where the tenant is, and the day of its UTC date.  *)
LocalDay(t) == t \div DayLength
DayUTC(t) == (t + Ahead) \div DayLength

Refusals == [kind : {"none", "in", "out"}, employee : Somebody, day : Days \cup {NoDay}, at : 0 .. Last]
PunchCall == [pc : {"idle", "sent", "answered", "persisting", "refreshing"},
              employee : Somebody, type : Types,
              answer : {"none", "ok", "gone", "active", "pending", "tips", "refused", "error"},
              day : Days \cup {NoDay}, held : BOOLEAN]
TipCall == [pc : {"idle", "sent", "answered"}, employee : Somebody, day : Days \cup {NoDay},
            pending : BOOLEAN, answer : {"none", "ok", "gone", "future", "old", "already", "error"}]

NoRefusal == [kind |-> "none", employee |-> None, day |-> NoDay, at |-> 0]
NoPunch == [pc |-> "idle", employee |-> None, type |-> "OUT", answer |-> "none", day |-> NoDay,
            held |-> FALSE]
NoTip == [pc |-> "idle", employee |-> None, day |-> NoDay, pending |-> FALSE, answer |-> "none"]

TypeOK ==
    /\ now \in 0 .. Last
    /\ latest \in [Employees -> Types]
    /\ autoOuts \subseteq Employees \X Days
    /\ tips \subseteq Servers \X Days
    /\ deleted \subseteq Employees
    /\ session \in Somebody /\ stored \in Somebody /\ removing \in BOOLEAN
    /\ submitted \subseteq Servers \X Days /\ saved \subseteq Servers \X Days
    /\ writes \in Seq(SUBSET (Servers \X Days))
    /\ bootTips \in [loaded : BOOLEAN, tips : SUBSET (Servers \X Days)]
    /\ tipsAsked \in BOOLEAN /\ resolved \in BOOLEAN
    /\ pendingTip \in Days \cup {NoDay}
    /\ refusal \in Refusals
    /\ punch \in PunchCall /\ tip \in TipCall
    /\ boot \in Somebody \cup {Loaded}
    /\ touched \subseteq Employees \X {"out", "gone", "tips"}
    /\ faults \in 0 .. MaxFaults /\ events \in 0 .. MaxEvents

Init ==
    /\ now = 0
    /\ latest = [e \in Employees |-> "OUT"]
    /\ autoOuts = {} /\ tips = {} /\ deleted = {}
    /\ session = None /\ stored = None /\ removing = FALSE
    /\ submitted = {} /\ saved = {} /\ writes = <<>>
    /\ bootTips = [loaded |-> FALSE, tips |-> {}]
    /\ tipsAsked = FALSE /\ pendingTip = NoDay
    /\ refusal = NoRefusal /\ punch = NoPunch /\ tip = NoTip
    /\ boot = None /\ resolved = FALSE
    /\ touched = {} /\ faults = 0 /\ events = 0

Fault == faults < MaxFaults /\ faults' = faults + 1

(* The session's employee, or whoever is typed while there is no session.   *)
Selected(e) == session \in {e, None}

----------------------------------------------------------------------------
(* handlePunch.                                                             *)

TipsRequired(e) == e \in Servers \/ tipsAsked

HasSubmitted(e) == <<e, DayUTC(now)>> \in submitted

(* The device refuses by itself.                                            *)
RefuseOut(e) ==
    /\ punch.pc = "idle" /\ Selected(e)
    /\ TipsRequired(e) /\ ~HasSubmitted(e)
    /\ refusal' = [kind |-> "out", employee |-> e, day |-> DayUTC(now), at |-> now]
    /\ UNCHANGED <<worldVars, apiVars, shiftVars, tipVars, diskTips, punch, tip, boot, resolved, faults>>

RefuseIn(e) ==
    /\ punch.pc = "idle" /\ Selected(e)
    /\ e \in Servers /\ pendingTip # NoDay
    /\ refusal' = [kind |-> "in", employee |-> e, day |-> pendingTip, at |-> now]
    /\ UNCHANGED <<worldVars, apiVars, shiftVars, tipVars, diskTips, punch, tip, boot, resolved, faults>>

(* A tap before the stored shift is restored counts as a fault of the user. *)
StartPunch(e, type) ==
    /\ punch.pc = "idle" /\ Selected(e)
    /\ type = "OUT" => ~TipsRequired(e) \/ HasSubmitted(e)
    /\ type = "IN" => e \notin Servers \/ pendingTip = NoDay
    /\ punch' = [NoPunch EXCEPT !.pc = "sent", !.employee = e, !.type = type,
                                !.held = session = e]
    /\ refusal' = NoRefusal
    /\ IF boot = Loaded THEN UNCHANGED faults ELSE Fault
    /\ UNCHANGED <<worldVars, apiVars, shiftVars, tipVars, diskTips, tip, boot, resolved>>

(* Days of the last week, which a run does not outlast.                     *)
Owed(e) == {d \in Days : <<e, d>> \in autoOuts /\ <<e, d>> \notin tips}

AnswerPunch(answer, day) == punch' = [punch EXCEPT !.pc = "answered", !.answer = answer, !.day = day]

(* createPunch, for the request of this device.                             *)
ServePunch ==
    LET e == punch.employee IN
    /\ punch.pc = "sent"
    /\ \/ /\ e \in deleted
          /\ AnswerPunch("gone", NoDay) /\ UNCHANGED latest
       \/ /\ e \notin deleted
          /\ AnswerPunch("refused", NoDay) /\ UNCHANGED latest
       \/ /\ e \notin deleted /\ punch.type = "IN" /\ latest[e] \in Active
          /\ AnswerPunch("active", NoDay) /\ UNCHANGED latest
       \/ /\ e \notin deleted /\ punch.type = "IN" /\ latest[e] \notin Active
          /\ e \in Servers
          /\ \E d \in Owed(e) : AnswerPunch("pending", d)
          /\ UNCHANGED latest
       \/ /\ e \notin deleted /\ punch.type = "OUT"
          /\ e \in Servers /\ <<e, LocalDay(now)>> \notin tips
          /\ AnswerPunch("tips", NoDay) /\ UNCHANGED latest
       \/ /\ e \notin deleted
          /\ punch.type = "IN" => latest[e] \notin Active /\ (e \in Servers => Owed(e) = {})
          /\ punch.type = "OUT" /\ e \in Servers => <<e, LocalDay(now)>> \in tips
          /\ AnswerPunch("ok", NoDay)
          /\ latest' = [latest EXCEPT ![e] = punch.type]
    /\ UNCHANGED <<worldVars, autoOuts, tips, deleted, shiftVars, tipVars, diskTips,
                   refusal, tip, boot, resolved, faults>>

(* clearActiveShiftSession: the shift that is over is forgotten, and its     *)
(* removal from the disk asked for.  Nobody waits for it.                   *)
ClearedInMemory == session' = None /\ UNCHANGED removing

Cleared == session' = None /\ removing' = TRUE

(* What handlePunch does with the answer, up to its next await: an answer   *)
(* to anything but a clock-in stores the shift again if it had no PIN and   *)
(* one was typed.                                                           *)
ApplyPunch ==
    /\ punch.pc = "answered"
    /\ resolved' = (resolved \/ punch.answer # "error")
    /\ CASE punch.answer = "ok" ->
              /\ \/ /\ punch.type = "IN" \/ punch.held
                    /\ session' = punch.employee /\ punch' = [punch EXCEPT !.pc = "persisting"]
                 \/ /\ punch.type # "IN"
                    /\ punch' = [punch EXCEPT !.pc = "refreshing"] /\ UNCHANGED session
              /\ tipsAsked' = FALSE
              /\ UNCHANGED <<removing, pendingTip>>
         [] punch.answer = "active" ->
              /\ session' = punch.employee
              /\ punch' = [punch EXCEPT !.pc = "persisting"]
              /\ UNCHANGED <<removing, tipsAsked, pendingTip>>
         [] punch.answer = "gone" /\ punch.type # "IN" ->
              Cleared /\ tipsAsked' = FALSE /\ punch' = NoPunch /\ UNCHANGED pendingTip
         [] punch.answer = "tips" ->
              tipsAsked' = TRUE /\ punch' = NoPunch /\ UNCHANGED <<session, removing, pendingTip>>
         [] punch.answer = "pending" ->
              /\ pendingTip' = punch.day /\ tipsAsked' = TRUE
              /\ punch' = NoPunch /\ UNCHANGED <<session, removing>>
         [] OTHER ->
              punch' = NoPunch /\ UNCHANGED <<session, removing, tipsAsked, pendingTip>>
    /\ UNCHANGED <<worldVars, apiVars, stored, submitted, diskTips, refusal, tip, boot, faults>>

(* persistActiveShift is through, and any removal asked for before it.      *)
Persisted ==
    /\ punch.pc = "persisting"
    /\ stored' = punch.employee /\ removing' = FALSE
    /\ punch' = IF punch.answer = "ok" THEN [punch EXCEPT !.pc = "refreshing"] ELSE NoPunch
    /\ pendingTip' = IF punch.answer = "ok" /\ punch.type = "IN" THEN NoDay ELSE pendingTip
    /\ UNCHANGED <<worldVars, apiVars, session, submitted, diskTips, tipsAsked, refusal, tip, boot,
                   resolved, faults>>

(* loadWorkingNow is through, with an answer or without one.                *)
Refreshed ==
    /\ punch.pc = "refreshing"
    /\ IF punch.type = "OUT" THEN Cleared /\ tipsAsked' = FALSE
                             ELSE UNCHANGED <<session, removing, tipsAsked>>
    /\ punch' = NoPunch
    /\ UNCHANGED <<worldVars, apiVars, stored, submitted, diskTips, pendingTip, refusal, tip, boot,
                   resolved, faults>>

(* The multiRemove of clearActiveShiftSession is carried out.               *)
Removed ==
    /\ removing
    /\ stored' = None /\ removing' = FALSE
    /\ UNCHANGED <<worldVars, apiVars, session, tipVars, diskTips, refusal, punch, tip, boot,
                   resolved, faults>>

----------------------------------------------------------------------------
(* handleSubmitTips.                                                        *)

TipDayPending == pendingTip

TipDay == IF pendingTip # NoDay THEN pendingTip ELSE DayUTC(now)

(* The button is there for a clock-out and for tips that are owed.          *)
TipsShown(e) == e \in Servers /\ (~HasSubmitted(e) \/ pendingTip # NoDay)

(* A tap before the submitted tips are loaded counts as a fault as well.    *)
StartTips(e) ==
    /\ tip.pc = "idle" /\ Selected(e) /\ TipsShown(e)
    /\ IF <<e, TipDay>> \in submitted
       THEN pendingTip' = NoDay /\ UNCHANGED tip
       ELSE /\ tip' = [NoTip EXCEPT !.pc = "sent", !.employee = e, !.day = TipDay,
                                    !.pending = pendingTip # NoDay]
            /\ UNCHANGED pendingTip
    /\ IF bootTips.loaded THEN UNCHANGED faults ELSE Fault
    /\ UNCHANGED <<worldVars, apiVars, shiftVars, submitted, diskTips, tipsAsked, refusal,
                   punch, boot, resolved>>

(* assertWithinEditWindow: which days the API takes tips for.               *)
Future(d, t) == d > LocalDay(t)
Old(d, t) == LocalDay(t) - d > EditWindow - 1

(* submitTip, for the request of this device.                               *)
ServeTips ==
    /\ tip.pc = "sent"
    /\ LET key == <<tip.employee, tip.day>>
           answer == IF tip.employee \in deleted THEN "gone"
                     ELSE IF Future(tip.day, now) THEN "future"
                     ELSE IF Old(tip.day, now) THEN "old"
                     ELSE IF key \in tips THEN "already" ELSE "ok"
       IN  /\ tip' = [tip EXCEPT !.pc = "answered", !.answer = answer]
           /\ tips' = IF answer = "ok" THEN tips \cup {key} ELSE tips
    /\ UNCHANGED <<worldVars, latest, autoOuts, deleted, shiftVars, tipVars, diskTips,
                   refusal, punch, boot, resolved, faults>>

MarkedToday(call) == {<<call.employee, DayUTC(now)>>}

MarkedUnlessPending(call) == IF call.pending THEN {} ELSE {<<call.employee, call.day>>}

Marked(call) == {<<call.employee, call.day>>}

(* A new key is remembered, and the whole memory asked to be written.       *)
Remember(keys) ==
    /\ submitted' = submitted \cup keys
    /\ writes' = IF keys \subseteq submitted THEN writes ELSE Append(writes, submitted')

ApplyTips ==
    /\ tip.pc = "answered"
    /\ resolved' = (resolved \/ tip.answer # "error")
    /\ IF tip.answer \in {"ok", "already"}
       THEN /\ Remember(Marked(tip))
            /\ tipsAsked' = FALSE
            /\ pendingTip' = IF tip.pending THEN NoDay ELSE pendingTip
       ELSE UNCHANGED <<tipVars, writes>>
    /\ tip' = NoTip
    /\ UNCHANGED <<worldVars, apiVars, shiftVars, saved, bootTips, refusal, punch, boot, faults>>

(* The disk writes what it has been asked for.                              *)
SaveTips ==
    /\ writes # <<>>
    /\ saved' = Head(writes) /\ writes' = Tail(writes)
    /\ UNCHANGED <<worldVars, apiVars, shiftVars, tipVars, bootTips, refusal, punch, tip, boot,
                   resolved, faults>>

----------------------------------------------------------------------------
(* Connections, the app's own life, and the others.                         *)

(* A request or its answer is lost; while no address of the API has ever    *)
(* answered, fetchJson may have a next one to send the request to.          *)
LosePunch ==
    /\ punch.pc \in {"sent", "answered"} /\ Fault
    /\ \/ punch' = [punch EXCEPT !.pc = "answered", !.answer = "error"]
       \/ ~resolved /\ punch' = [punch EXCEPT !.pc = "sent", !.answer = "none", !.day = NoDay]
    /\ UNCHANGED <<worldVars, apiVars, shiftVars, tipVars, diskTips, refusal, tip, boot, resolved>>

LoseTips ==
    /\ tip.pc \in {"sent", "answered"} /\ Fault
    /\ \/ tip' = [tip EXCEPT !.pc = "answered", !.answer = "error"]
       \/ ~resolved /\ tip' = [tip EXCEPT !.pc = "sent", !.answer = "none"]
    /\ UNCHANGED <<worldVars, apiVars, shiftVars, tipVars, diskTips, refusal, punch, boot, resolved>>

(* The app ends and starts again, and asks its disk what it says: a fault   *)
(* only if a handler was under way or the disk had not yet followed.        *)
Restart ==
    /\ session' = None /\ boot' = stored /\ removing' = FALSE
    /\ submitted' = {} /\ bootTips' = [loaded |-> FALSE, tips |-> saved] /\ writes' = <<>>
    /\ tipsAsked' = FALSE /\ pendingTip' = NoDay /\ refusal' = NoRefusal
    /\ punch' = NoPunch /\ tip' = NoTip /\ resolved' = FALSE
    /\ IF punch.pc = "idle" /\ tip.pc = "idle" /\ ~removing /\ writes = <<>>
       THEN UNCHANGED faults ELSE Fault
    /\ UNCHANGED <<worldVars, apiVars, stored, saved>>

(* loadActiveShift, which may be late.                                      *)
RestoreShift ==
    /\ boot # Loaded
    /\ session' = boot /\ boot' = Loaded
    /\ UNCHANGED <<worldVars, apiVars, stored, removing, tipVars, diskTips, refusal, punch, tip,
                   resolved, faults>>

(* loadTipSubmissionCache: what was read replaces what is in memory.        *)
RestoreTips ==
    /\ ~bootTips.loaded
    /\ submitted' = IF bootTips.tips = {} THEN submitted ELSE bootTips.tips
    /\ bootTips' = [loaded |-> TRUE, tips |-> {}]
    /\ UNCHANGED <<worldVars, apiVars, shiftVars, saved, writes, tipsAsked, pendingTip, refusal,
                   punch, tip, boot, resolved, faults>>

Touch(e, how) ==
    /\ events < MaxEvents /\ events' = events + 1
    /\ touched' = touched \cup {<<e, how>>}

AutoClockOut(e) ==
    /\ latest[e] \in Active /\ Touch(e, "out")
    /\ latest' = [latest EXCEPT ![e] = "OUT"]
    /\ autoOuts' = autoOuts \cup {<<e, LocalDay(now)>>}
    /\ UNCHANGED <<now, tips, deleted, shiftVars, tipVars, diskTips, refusal, punch, tip, boot, resolved, faults>>

Delete(e) ==
    /\ e \notin deleted /\ Touch(e, "gone")
    /\ deleted' = deleted \cup {e}
    /\ UNCHANGED <<now, latest, autoOuts, tips, shiftVars, tipVars, diskTips, refusal, punch, tip,
                   boot, resolved, faults>>

TipsElsewhere(e) ==
    /\ e \in Servers \ deleted /\ <<e, LocalDay(now)>> \notin tips /\ Touch(e, "tips")
    /\ tips' = tips \cup {<<e, LocalDay(now)>>}
    /\ UNCHANGED <<now, latest, autoOuts, deleted, shiftVars, tipVars, diskTips, refusal, punch, tip,
                   boot, resolved, faults>>

Tick ==
    /\ now < Last /\ now' = now + 1
    /\ UNCHANGED <<apiVars, shiftVars, tipVars, diskTips, refusal, punch, tip, boot, resolved,
                   touched, faults, events>>

PunchStep ==
    \/ ServePunch \/ ApplyPunch \/ Persisted \/ Refreshed \/ Removed \/ LosePunch
    \/ \E e \in Employees : RefuseOut(e) \/ RefuseIn(e) \/ \E type \in Types : StartPunch(e, type)

TipStep == ServeTips \/ ApplyTips \/ SaveTips \/ LoseTips \/ \E e \in Employees : StartTips(e)

Others == \E e \in Employees : AutoClockOut(e) \/ Delete(e) \/ TipsElsewhere(e)

Next == PunchStep \/ TipStep \/ Restart \/ RestoreShift \/ RestoreTips \/ Others \/ Tick

Spec == Init /\ [][Next]_vars

----------------------------------------------------------------------------
(* Properties.                                                              *)

(* What the device believes, has stored, is about to store or is about to   *)
(* load are tips that the API has, over midnights, owed days, lost answers  *)
(* and apps that end before their disk has followed: otherwise a clock-out  *)
(* would be sent that the API refuses.                                      *)
CacheIsTrue ==
    /\ submitted \subseteq tips /\ saved \subseteq tips /\ bootTips.tips \subseteq tips
    /\ \A i \in DOMAIN writes : writes[i] \subseteq tips

(* While no answer has been lost, no app has ended within a handler or      *)
(* before its disk had followed, and nobody has tapped before the device    *)
(* had loaded what it had stored, a session at rest is that of an employee  *)
(* on a shift, and whoever has clocked in has the session, unless others    *)
(* have changed his rows.                                                   *)
SessionTellsTruth ==
    faults = 0 /\ punch.pc = "idle" /\ boot = Loaded =>
      \A e \in Employees :
        \/ \E how \in {"out", "gone", "tips"} : <<e, how>> \in touched
        \/ /\ session = e => latest[e] \in Active
           /\ latest[e] = "IN" => session = e

(* Whoever has declared his tips on this device is not asked for them again *)
(* at a clock-out once the device has loaded what it has stored, unless an  *)
(* answer was lost, the app ended within a handler or before its disk had   *)
(* followed, or somebody had tapped before the device had loaded; owed days *)
(* are no exception.                                                        *)
NotAskedTwice ==
    [][\A e \in Employees :
         (/\ refusal' # refusal /\ refusal'.kind = "out" /\ refusal'.employee = e
          /\ faults = 0 /\ bootTips.loaded /\ tip.pc = "idle" /\ <<e, "tips">> \notin touched)
         => <<e, refusal'.day>> \notin tips]_vars

(* The tips the device asks a server for are tips the API accepts at that   *)
(* instant.                                                                 *)
RefusalCanBeMet ==
    refusal.kind # "none" /\ refusal.employee \in Servers =>
      ~Future(refusal.day, refusal.at) /\ ~Old(refusal.day, refusal.at)
=============================================================================
