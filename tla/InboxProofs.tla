----------------------------- MODULE InboxProofs -----------------------------
(***************************************************************************)
(* Proofs about CustomerInbox, for every number of messages, windows,       *)
(* frames, overlaps, resets and crashes: although windows write their lists *)
(* over each other's, what the inbox says of a frame was true.              *)
(***************************************************************************)
EXTENDS CustomerInbox, GateProofs, FiniteSetTheorems

(***************************************************************************)
(* Types of what windows hold.                                              *)
(***************************************************************************)

LEMMA SomeMessageType == SomeMessage \in Message
BY CustomerInboxAssumption DEF SomeMessage

LEMMA CreatedType == \A m \in Message : Created(m) \in SavedFrame
BY DEF Created, SavedFrame, TASKFRAME_STATES, ACTION_VALUES

LEMMA SeedType == SEED_MESSAGES \in Inbox
<1>1. [status |-> "NEW", link |-> Unlinked] \in Entry
  BY DEF Entry, ALLOWED_STATUSES
<1> QED
  BY <1>1 DEF SEED_MESSAGES, Inbox

LEMMA SeedTrue == ASSUME NEW fs, NEW ws PROVE ListIsTrue(fs, ws, SEED_MESSAGES)
BY DEF ListIsTrue, True, SEED_MESSAGES

\* The fields of an idle window.
LEMMA IdleType ==
    /\ Idle \in Process
    /\ Idle.pc = "idle" /\ Idle.via = "inbox" /\ Idle.frame = Unlinked /\ Idle.next = "idle"
    /\ Idle.list = SEED_MESSAGES /\ Idle.msg \in Message
    /\ Idle.entry = [status |-> "NEW", link |-> Unlinked]
<1>1. SEED_MESSAGES[SomeMessage] = [status |-> "NEW", link |-> Unlinked]
  BY SomeMessageType DEF SEED_MESSAGES
<1>2. SEED_MESSAGES[SomeMessage] \in Entry
  BY <1>1 DEF Entry, ALLOWED_STATUSES
<1> QED
  BY <1>1, <1>2, SomeMessageType, CreatedType, SeedType DEF Idle, Process

LEMMA IdleFit == ASSUME NEW fs, NEW ws PROVE Fit(fs, ws, Idle)
<1>1. True(fs, ws, Idle.msg, Idle.entry)
  BY IdleType DEF True
<1> QED
  BY <1>1, IdleType, SeedTrue DEF Fit

(***************************************************************************)
(* What was true stays true while frames are added and facts are kept.      *)
(***************************************************************************)

Grows(fs, ws, gs, vs) ==
    \A f \in FrameId : /\ fs[f] # NoFrame => gs[f] # NoFrame /\ gs[f].of = fs[f].of
                       /\ ws[f] \subseteq vs[f]

LEMMA GrowsNot == ASSUME NEW fs, NEW ws PROVE Grows(fs, ws, fs, ws)
BY DEF Grows

LEMMA TrueGrows ==
    ASSUME NEW fs, NEW ws, NEW gs, NEW vs, Grows(fs, ws, gs, vs),
           NEW m, NEW e \in Entry, True(fs, ws, m, e)
    PROVE  True(gs, vs, m, e)
<1>1. CASE e.link = Unlinked
  BY <1>1 DEF True
<1>2. CASE e.link # Unlinked
  <2>1. e.link \in FrameId
    BY <1>2 DEF Entry
  <2> QED
    BY <1>2, <2>1 DEF True, Grows, MadeFor
<1> QED
  BY <1>1, <1>2

LEMMA ListGrows ==
    ASSUME NEW fs, NEW ws, NEW gs, NEW vs, Grows(fs, ws, gs, vs),
           NEW list \in Inbox, ListIsTrue(fs, ws, list)
    PROVE  ListIsTrue(gs, vs, list)
BY TrueGrows DEF ListIsTrue, Inbox

LEMMA FitGrows ==
    ASSUME NEW fs, NEW ws, NEW gs, NEW vs, Grows(fs, ws, gs, vs),
           NEW p \in Process, Fit(fs, ws, p)
    PROVE  Fit(gs, vs, p)
<1>1. /\ p.entry \in Entry /\ p.list \in Inbox /\ p.frame \in FrameId \cup {Unlinked}
  BY DEF Process
<1>2. True(gs, vs, p.msg, p.entry) /\ ListIsTrue(gs, vs, p.list)
  BY <1>1, TrueGrows, ListGrows DEF Fit
<1>3. p.frame # Unlinked => MadeFor(gs, p.frame, p.msg)
  BY <1>1 DEF Fit, Grows, MadeFor
<1>4. p.pc = "save" => FrameIsTrue(vs, p.frame, p.held)
  BY <1>1 DEF Fit, Grows, FrameIsTrue
<1> QED
  BY <1>2, <1>3, <1>4 DEF Fit

(***************************************************************************)
(* One window moves.                                                        *)
(***************************************************************************)

CountsType ==
    /\ behind \subseteq FrameId
    /\ overlaps \in 0..MaxOverlaps
    /\ resets \in 0..MaxAccidents
    /\ crashes \in 0..MaxAccidents
    /\ raised \in 0..MaxAccidents
    /\ guarded \subseteq Message

LEMMA StepInv ==
    ASSUME IndInv, CountsType',
           NEW w \in Window, NEW p \in Process,
           window' = [window EXCEPT ![w] = p],
           frames' \in [FrameId -> SavedFrame \cup {NoFrame}],
           was' \in [FrameId -> SUBSET {"approved", "rejected", "completed"}],
           Grows(frames, was, frames', was'),
           Fit(frames', was', p),
           \A f \in FrameId : frames'[f] # NoFrame =>
               FrameIsTrue(was', f, frames'[f]) /\ Facts(frames'[f]) \subseteq was'[f],
           inbox' \in Inbox \cup {NoInbox}, temp' \in Inbox \cup {NoInbox},
           inbox' # NoInbox => ListIsTrue(frames', was', inbox'),
           temp' # NoInbox => ListIsTrue(frames', was', temp'),
           inbox # NoInbox => inbox' # NoInbox,
           p.via # "inbox" => inbox # NoInbox,
           inbox = NoInbox => frames' = frames
    PROVE  IndInv'
<1>1. TypeOK'
  BY DEF TypeOK, CountsType, IndInv
<1>2. \A v \in Window : Fit(frames', was', window'[v])
  <2>1. ASSUME NEW v \in Window, v # w PROVE Fit(frames', was', window'[v])
    <3>1. window'[v] = window[v] /\ window[v] \in Process /\ Fit(frames, was, window[v])
      BY <2>1 DEF IndInv, TypeOK
    <3> QED
      BY <3>1, FitGrows
  <2>2. window'[w] = p
    BY DEF IndInv, TypeOK
  <2> QED
    BY <2>1, <2>2
<1>3. SeededFirst'
  BY DEF SeededFirst, IndInv, TypeOK
<1> QED
  BY <1>1, <1>2, <1>3 DEF IndInv, InboxWasTrue

LEMMA LocalInv ==
    ASSUME IndInv, CountsType',
           NEW w \in Window, NEW p \in Process,
           window' = [window EXCEPT ![w] = p],
           UNCHANGED <<inbox, temp, frames, was>>,
           Fit(frames, was, p), p.via # "inbox" => inbox # NoInbox
    PROVE  IndInv'
<1>1. Grows(frames, was, frames', was')
  BY GrowsNot
<1>2. /\ frames' \in [FrameId -> SavedFrame \cup {NoFrame}]
      /\ was' \in [FrameId -> SUBSET {"approved", "rejected", "completed"}]
      /\ inbox' \in Inbox \cup {NoInbox} /\ temp' \in Inbox \cup {NoInbox}
  BY DEF IndInv, TypeOK
<1>3. /\ Fit(frames', was', p)
      /\ \A f \in FrameId : frames'[f] # NoFrame =>
               FrameIsTrue(was', f, frames'[f]) /\ Facts(frames'[f]) \subseteq was'[f]
      /\ inbox' # NoInbox => ListIsTrue(frames', was', inbox')
      /\ temp' # NoInbox => ListIsTrue(frames', was', temp')
  BY DEF IndInv, InboxWasTrue
<1> QED
  BY <1>1, <1>2, <1>3, StepInv

(***************************************************************************)
(* Operations on the list.                                                  *)
(***************************************************************************)

LEMMA SameCounts ==
    TypeOK /\ UNCHANGED <<behind, overlaps, resets, crashes, guarded, raised>> => CountsType'
BY DEF TypeOK, CountsType

LEMMA BeginsCounts ==
    ASSUME TypeOK, NEW w, NEW p, Begins(w, p), UNCHANGED <<behind, resets, crashes, guarded, raised>>
    PROVE  CountsType'
BY CustomerInboxAssumption DEF TypeOK, CountsType, Begins

LEMMA RaisedType ==
    ASSUME TypeOK, Accident, UNCHANGED <<overlaps, resets, crashes, guarded>>,
           \/ behind' = behind
           \/ \E w \in Window : behind' = Behind(behind \cup ({window[w].frame} \ {Unlinked}))
    PROVE  CountsType'
<1>1. behind' \subseteq FrameId
  BY DEF TypeOK, Behind, Process
<1>2. raised' \in 0..MaxAccidents
  <2>1. /\ resets \in 0..MaxAccidents /\ crashes \in 0..MaxAccidents
        /\ raised \in 0..MaxAccidents
    BY DEF TypeOK
  <2> QED
    BY <2>1, CustomerInboxAssumption DEF Accident
<1> QED
  BY <1>1, <1>2 DEF TypeOK, CountsType

LEMMA OverwritingFit ==
    LET p == [Idle EXCEPT !.pc = "write"]
    IN  p \in Process /\ p.via = "inbox" /\ Fit(frames, was, p)
<1> DEFINE p == [Idle EXCEPT !.pc = "write"]
<1>1. /\ p \in Process /\ p.pc = "write" /\ p.via = "inbox" /\ p.frame = Unlinked
      /\ p.next = "idle" /\ p.entry = Idle.entry /\ p.list = Idle.list /\ p.msg = Idle.msg
  BY IdleType DEF Process
<1>2. Fit(frames, was, p)
  BY <1>1, IdleFit DEF Fit
<1> QED
  BY <1>1, <1>2

LEMMA SeedInv == ASSUME IndInv, UNCHANGED <<guarded, raised>>, NEW w \in Window, Seed(w) PROVE IndInv'
<1> DEFINE p == [Idle EXCEPT !.pc = "write"]
<1>1. window' = [window EXCEPT ![w] = p] /\ Begins(w, p)
  BY DEF Seed, Overwriting, Begins
<1>2. UNCHANGED <<inbox, temp, frames, was, behind, resets, crashes>>
  BY DEF Seed
<1>3. CountsType'
  BY <1>1, <1>2, BeginsCounts DEF IndInv
<1>4. p \in Process /\ p.via = "inbox" /\ Fit(frames, was, p)
  BY OverwritingFit
<1> HIDE DEF p
<1> QED
  BY <1>1, <1>2, <1>3, <1>4, LocalInv

LEMMA ResetInv == ASSUME IndInv, UNCHANGED <<guarded, raised>>, NEW w \in Window, Reset(w) PROVE IndInv'
<1> DEFINE p == [Idle EXCEPT !.pc = "write"]
<1>1. window' = [window EXCEPT ![w] = p] /\ Begins(w, p)
  BY DEF Reset, Overwriting, Begins
<1>2. UNCHANGED <<inbox, temp, frames, was, behind, crashes>> /\ resets' = resets + 1
      /\ resets + crashes + raised < MaxAccidents
  BY DEF Reset
<1>3. CountsType'
  <2>1. overlaps' \in 0..MaxOverlaps
    BY <1>1, CustomerInboxAssumption DEF IndInv, TypeOK, Begins
  <2> QED
    BY <1>2, <2>1, CustomerInboxAssumption DEF IndInv, TypeOK, CountsType
<1>4. p \in Process /\ p.via = "inbox" /\ Fit(frames, was, p)
  BY OverwritingFit
<1> HIDE DEF p
<1> QED
  BY <1>1, <1>2, <1>3, <1>4, LocalInv

LEMMA LoadInv == ASSUME IndInv, UNCHANGED <<guarded, raised>>, NEW w \in Window, Load(w) PROVE IndInv'
<1> DEFINE q == window[w]
           list == Merged(inbox, q)
           p == [q EXCEPT !.pc = "write", !.list = list, !.entry = Idle.entry]
<1>1. window' = [window EXCEPT ![w] = p]
      /\ UNCHANGED <<inbox, temp, frames, was, behind, overlaps, resets, crashes>>
  BY DEF Load, GoesOn
<1>2. q \in Process /\ Fit(frames, was, q) /\ q.pc = "load"
  BY DEF IndInv, TypeOK, Load
<1>3. inbox \in Inbox /\ ListIsTrue(frames, was, inbox)
  BY <1>2 DEF IndInv, TypeOK, InboxWasTrue, SeededFirst, Fit
<1>4. q.msg \in Message /\ q.entry \in Entry /\ inbox[q.msg] \in Entry
  BY <1>2, <1>3 DEF Process, Inbox
<1> DEFINE e == IF q.entry.status = "PROCESSING"
                THEN [inbox[q.msg] EXCEPT !.status = "PROCESSING"] ELSE q.entry
<1>5. e \in Entry /\ True(frames, was, q.msg, e)
  <2>1. CASE q.entry.status = "PROCESSING"
    <3>1. e.status = "PROCESSING" /\ e.link = inbox[q.msg].link /\ e \in Entry
      BY <1>4, <2>1 DEF Entry, ALLOWED_STATUSES
    <3>2. True(frames, was, q.msg, inbox[q.msg])
      BY <1>3, <1>4 DEF ListIsTrue
    <3> QED
      BY <3>1, <3>2 DEF True
  <2>2. CASE q.entry.status # "PROCESSING"
    BY <1>2, <1>4, <2>2 DEF Fit
  <2> QED
    BY <2>1, <2>2
<1>6. list = [inbox EXCEPT ![q.msg] = e]
  BY DEF Merged
<1> HIDE DEF e, list
<1>7. list \in Inbox
  BY <1>3, <1>4, <1>5, <1>6 DEF Inbox
<1>8. ListIsTrue(frames, was, list)
  <2>1. ASSUME NEW m \in Message PROVE True(frames, was, m, list[m])
    BY <1>3, <1>5, <1>6 DEF ListIsTrue, Inbox
  <2> QED
    BY <2>1 DEF ListIsTrue
<1>9. /\ p \in Process /\ p.pc = "write" /\ p.via = q.via /\ p.frame = q.frame
      /\ p.next = q.next /\ p.entry = Idle.entry /\ p.list = list /\ p.msg = q.msg
  BY <1>2, <1>7, IdleType DEF Process
<1>10. True(frames, was, p.msg, p.entry)
  BY <1>9, IdleType DEF True
<1>11. Fit(frames, was, p)
  BY <1>2, <1>8, <1>9, <1>10 DEF Fit
<1>12. p.via # "inbox" => inbox # NoInbox
  BY <1>9 DEF IndInv, SeededFirst
<1> HIDE DEF p
<1> QED
  BY <1>1, <1>9, <1>11, <1>12, SameCounts, LocalInv DEF IndInv

LEMMA WriteTempInv == ASSUME IndInv, UNCHANGED <<guarded, raised>>, NEW w \in Window, WriteTemp(w) PROVE IndInv'
<1> DEFINE q == window[w]
           p == [q EXCEPT !.pc = "replace", !.list = SEED_MESSAGES]
<1>1. window' = [window EXCEPT ![w] = p] /\ temp' = q.list
      /\ UNCHANGED <<inbox, frames, was, behind, overlaps, resets, crashes>>
  BY DEF WriteTemp
<1>2. q \in Process /\ Fit(frames, was, q)
  BY DEF IndInv, TypeOK
<1>3. /\ p \in Process /\ p.pc = "replace" /\ p.via = q.via /\ p.frame = q.frame
      /\ p.next = q.next /\ p.entry = q.entry /\ p.list = SEED_MESSAGES /\ p.msg = q.msg
  BY <1>2, SeedType DEF Process
<1>4. Fit(frames, was, p)
  BY <1>2, <1>3, SeedTrue DEF Fit
<1>5. temp' \in Inbox /\ ListIsTrue(frames, was, temp')
  BY <1>1, <1>2 DEF Fit, Process
<1>6. p.via # "inbox" => inbox # NoInbox
  BY <1>3 DEF IndInv, SeededFirst
<1> HIDE DEF p
<1> QED
  BY <1>1, <1>3, <1>4, <1>5, <1>6, SameCounts, GrowsNot, StepInv
     DEF IndInv, TypeOK, InboxWasTrue

LEMMA ReplaceInv == ASSUME IndInv, UNCHANGED <<guarded, raised>>, NEW w \in Window, Replace(w) PROVE IndInv'
<1> DEFINE q == window[w]
<1>1. q \in Process /\ Fit(frames, was, q)
  BY DEF IndInv, TypeOK
<1>2. ASSUME NEW pc \in {"raise", "clean"}, window' = [window EXCEPT ![w] = [q EXCEPT !.pc = pc]],
             \/ UNCHANGED <<inbox, temp>>
             \/ temp # NoInbox /\ inbox' = temp /\ temp' = NoInbox
      PROVE  IndInv'
  <2> DEFINE p == [q EXCEPT !.pc = pc]
  <2>1. /\ p \in Process /\ p.pc = pc /\ p.via = q.via /\ p.frame = q.frame
        /\ p.next = q.next /\ p.entry = q.entry /\ p.list = q.list /\ p.msg = q.msg
    BY <1>1 DEF Process
  <2>2. Fit(frames, was, p)
    BY <1>1, <2>1 DEF Fit
  <2>3. p.via # "inbox" => inbox # NoInbox
    BY <2>1 DEF IndInv, SeededFirst
  <2>4. UNCHANGED <<frames, was, behind, overlaps, resets, crashes>>
    BY DEF Replace
  <2>5. window' = [window EXCEPT ![w] = p]
    BY <1>2
  <2> HIDE DEF p
  <2>6. /\ inbox' \in Inbox \cup {NoInbox} /\ temp' \in Inbox \cup {NoInbox}
        /\ inbox' # NoInbox => ListIsTrue(frames, was, inbox')
        /\ temp' # NoInbox => ListIsTrue(frames, was, temp')
        /\ inbox # NoInbox => inbox' # NoInbox
    BY <1>2 DEF IndInv, TypeOK, InboxWasTrue
  <2> QED
    BY <2>1, <2>2, <2>3, <2>4, <2>5, <2>6, SameCounts, GrowsNot, StepInv DEF IndInv, TypeOK
<1> QED
  BY <1>2 DEF Replace

\* A window that goes on to another update, of status and link.
LEMMA UpdatingFit ==
    ASSUME NEW fs, NEW ws, NEW q \in Process, Fit(fs, ws, q), q.via # "inbox",
           NEW status \in ALLOWED_STATUSES, NEW link \in FrameId \cup {Unlinked},
           NEW next \in {"idle", "create"},
           True(fs, ws, q.msg, [status |-> status, link |-> link])
    PROVE  LET p == Updating(q, status, link, next)
           IN  p \in Process /\ Fit(fs, ws, p) /\ p.via = q.via
<1> DEFINE p == Updating(q, status, link, next)
<1>1. [status |-> status, link |-> link] \in Entry
  BY DEF Entry
<1>2. /\ p \in Process /\ p.pc = "load" /\ p.via = q.via /\ p.frame = q.frame
      /\ p.next = next /\ p.entry = [status |-> status, link |-> link]
      /\ p.list = q.list /\ p.msg = q.msg
  BY <1>1 DEF Updating, Process
<1> HIDE DEF p
<1>3. Fit(fs, ws, p)
  BY <1>2 DEF Fit
<1> QED
  BY <1>2, <1>3 DEF p

LEMMA FailingFit ==
    ASSUME NEW fs, NEW ws, NEW q \in Process, Fit(fs, ws, q), NEW link \in {q.frame, Unlinked}
    PROVE  LET p == Failing(q, link)
           IN  p \in Process /\ Fit(fs, ws, p) /\ p.via = "failure"
<1> DEFINE r == [q EXCEPT !.via = "failure"]
<1>1. /\ r \in Process /\ r.pc = q.pc /\ r.via = "failure" /\ r.frame = q.frame
      /\ r.held = q.held /\ r.next = q.next /\ r.entry = q.entry /\ r.list = q.list
      /\ r.msg = q.msg
  BY DEF Process
<1>2. Fit(fs, ws, r)
  BY <1>1 DEF Fit
<1>3. True(fs, ws, r.msg, [status |-> "FAILED", link |-> link])
  BY <1>1 DEF True, Fit
<1>4. link \in FrameId \cup {Unlinked} /\ "FAILED" \in ALLOWED_STATUSES
  BY DEF Process, ALLOWED_STATUSES
<1> HIDE DEF r
<1>5. Updating(r, "FAILED", link, "idle") = Failing(q, link)
  BY DEF Failing, r
<1> QED
  BY <1>1, <1>2, <1>3, <1>4, <1>5, UpdatingFit

LEMMA CleanInv == ASSUME IndInv, UNCHANGED <<guarded, raised>>, NEW w \in Window, Clean(w) PROVE IndInv'
<1> DEFINE q == window[w]
           p == IF q.pc = "clean" THEN AfterSave(q) ELSE AfterRaise(q)
<1>1. window' = [window EXCEPT ![w] = p] /\ temp' = NoInbox
      /\ UNCHANGED <<inbox, frames, was, behind, overlaps, resets, crashes>>
  BY DEF Clean
<1>2. q \in Process /\ Fit(frames, was, q)
  BY DEF IndInv, TypeOK
<1>3. p \in Process /\ Fit(frames, was, p) /\ (p.via # "inbox" => q.via # "inbox")
  <2>1. CASE p = Idle
    BY <2>1, IdleType, IdleFit
  <2>2. CASE p = Failing(q, q.frame) /\ q.via = "process"
    BY <1>2, <2>2, FailingFit
  <2>3. CASE p = [q EXCEPT !.pc = "create", !.next = "idle"] /\ q.next = "create"
    <3>1. /\ p \in Process /\ p.pc = "create" /\ p.via = q.via /\ p.frame = q.frame
          /\ p.next = "idle" /\ p.entry = q.entry /\ p.list = q.list /\ p.msg = q.msg
      BY <1>2, <2>3 DEF Process
    <3> HIDE DEF p
    <3> QED
      BY <1>2, <2>3, <3>1 DEF Fit
  <2> QED
    BY <2>1, <2>2, <2>3 DEF AfterSave, AfterRaise
<1>4. p.via # "inbox" => inbox # NoInbox
  BY <1>3 DEF IndInv, SeededFirst
<1> HIDE DEF p
<1> QED
  BY <1>1, <1>3, <1>4, SameCounts, GrowsNot, StepInv DEF IndInv, TypeOK, InboxWasTrue

(***************************************************************************)
(* process_customer_message()                                               *)
(***************************************************************************)

LEMMA ProcessMessageInv ==
    ASSUME IndInv, UNCHANGED <<guarded, raised>>, NEW w \in Window, NEW m \in Message, ProcessMessage(w, m)
    PROVE  IndInv'
<1> DEFINE q == [Idle EXCEPT !.via = "process", !.msg = m]
           p == Updating(q, "PROCESSING", Unlinked, "create")
<1>1. window' = [window EXCEPT ![w] = p] /\ Begins(w, p) /\ inbox # NoInbox
      /\ UNCHANGED <<inbox, temp, frames, was, behind, resets, crashes>>
  BY DEF ProcessMessage, Begins
<1>2. CountsType'
  BY <1>1, BeginsCounts DEF IndInv
<1>3. /\ q \in Process /\ q.pc = "idle" /\ q.via = "process" /\ q.frame = Unlinked
      /\ q.next = "idle" /\ q.entry = Idle.entry /\ q.list = Idle.list /\ q.msg = m
  BY IdleType DEF Process
<1>4. True(frames, was, m, Idle.entry)
  BY IdleType DEF True
<1>5. Fit(frames, was, q)
  BY <1>3, <1>4, IdleFit DEF Fit
<1>6. True(frames, was, m, [status |-> "PROCESSING", link |-> Unlinked])
  BY DEF True
<1>7. "PROCESSING" \in ALLOWED_STATUSES
  BY DEF ALLOWED_STATUSES
<1> HIDE DEF q
<1>8. p \in Process /\ Fit(frames, was, p)
  BY <1>3, <1>5, <1>6, <1>7, UpdatingFit
<1> HIDE DEF p
<1> QED
  BY <1>1, <1>2, <1>8, LocalInv

LEMMA CreateInv == ASSUME IndInv, UNCHANGED <<guarded, raised>>, NEW w \in Window, Create(w) PROVE IndInv'
<1> DEFINE q == window[w]
<1>1. q \in Process /\ Fit(frames, was, q) /\ q.pc = "create"
  BY DEF IndInv, TypeOK, Create
<1>2. PICK f \in FrameId :
        /\ frames[f] = NoFrame
        /\ frames' = [frames EXCEPT ![f] = Created(q.msg)]
        /\ window' = [window EXCEPT ![w].pc = "run", ![w].frame = f]
  BY DEF Create
<1>3. UNCHANGED <<inbox, temp, was, behind, overlaps, resets, crashes>>
  BY DEF Create
<1> DEFINE p == [q EXCEPT !.pc = "run", !.frame = f]
<1>4. window' = [window EXCEPT ![w] = p]
  BY <1>2 DEF IndInv, TypeOK
<1>5. /\ p \in Process /\ p.pc = "run" /\ p.via = q.via /\ p.frame = f
      /\ p.next = q.next /\ p.entry = q.entry /\ p.list = q.list /\ p.msg = q.msg
  BY <1>1 DEF Process
<1>6. Created(q.msg) \in SavedFrame /\ q.msg \in Message
  BY <1>1, CreatedType DEF Process
<1>7. /\ Created(q.msg) # NoFrame /\ Created(q.msg).of = q.msg
      /\ Created(q.msg).state = "CREATED" /\ Created(q.msg).action = "NONE"
  BY <1>6 DEF Created, NoFrame, SavedFrame
<1>8. frames \in [FrameId -> SavedFrame \cup {NoFrame}]
  BY DEF IndInv, TypeOK
<1>9. Grows(frames, was, frames', was')
  BY <1>2, <1>3, <1>8 DEF Grows
<1>10. Fit(frames', was', p)
  <2>1. True(frames', was', q.msg, q.entry) /\ ListIsTrue(frames', was', q.list)
    BY <1>1, <1>9, FitGrows DEF Fit
  <2>2. MadeFor(frames', f, q.msg)
    BY <1>2, <1>7, <1>8 DEF MadeFor
  <2>3. q.via # "inbox"
    BY <1>1 DEF Fit
  <2>4. f # Unlinked
    BY DEF FrameId, Unlinked
  <2> HIDE DEF p
  <2> QED
    BY <1>5, <2>1, <2>2, <2>3, <2>4 DEF Fit
<1>11. inbox # NoInbox
  BY <1>1 DEF IndInv, SeededFirst, Fit
<1>12. ASSUME NEW g \in FrameId, frames'[g] # NoFrame
       PROVE  FrameIsTrue(was', g, frames'[g]) /\ Facts(frames'[g]) \subseteq was'[g]
  <2>1. CASE g = f
    <3>1. frames'[g] = Created(q.msg)
      BY <1>2, <1>8, <2>1
    <3> QED
      BY <1>7, <3>1 DEF FrameIsTrue, Facts, SuccessStates
  <2>2. CASE g # f
    BY <1>2, <1>3, <1>8, <1>12, <2>2 DEF IndInv
  <2> QED
    BY <2>1, <2>2
<1>13. /\ frames' \in [FrameId -> SavedFrame \cup {NoFrame}]
       /\ was' \in [FrameId -> SUBSET {"approved", "rejected", "completed"}]
       /\ inbox' \in Inbox \cup {NoInbox} /\ temp' \in Inbox \cup {NoInbox}
  BY <1>2, <1>3, <1>6, <1>8 DEF IndInv, TypeOK
<1>14. /\ inbox' # NoInbox => ListIsTrue(frames', was', inbox')
       /\ temp' # NoInbox => ListIsTrue(frames', was', temp')
  BY <1>3, <1>9, ListGrows DEF IndInv, InboxWasTrue, TypeOK
<1> HIDE DEF p
<1> QED
  BY <1>3, <1>4, <1>5, <1>9, <1>10, <1>11, <1>12, <1>13, <1>14, SameCounts, StepInv DEF IndInv

LEMMA CreateRaisesInv == ASSUME IndInv, UNCHANGED <<guarded, raised>>, NEW w \in Window, CreateRaises(w) PROVE IndInv'
<1> DEFINE q == window[w]
           p == Failing(q, Unlinked)
<1>1. window' = [window EXCEPT ![w] = p]
      /\ UNCHANGED <<inbox, temp, frames, was, behind, overlaps, resets, crashes>>
  BY DEF CreateRaises, GoesOn
<1>2. q \in Process /\ Fit(frames, was, q) /\ q.pc = "create"
  BY DEF IndInv, TypeOK, CreateRaises
<1>3. p \in Process /\ Fit(frames, was, p)
  BY <1>2, FailingFit
<1>4. inbox # NoInbox
  BY <1>2 DEF IndInv, SeededFirst, Fit
<1> HIDE DEF p
<1> QED
  BY <1>1, <1>3, <1>4, SameCounts, LocalInv DEF IndInv

\* A window saves one frame: the frame keeps its message, nothing said is lost.
LEMMA SaveInvariant ==
    ASSUME IndInv, NEW w \in Window, NEW p \in Process, NEW f \in FrameId, NEW g \in SavedFrame,
           window' = [window EXCEPT ![w] = p],
           frames[f] # NoFrame, g.of = frames[f].of,
           frames' = [frames EXCEPT ![f] = g],
           was' = [was EXCEPT ![f] = @ \cup Facts(g)],
           FrameIsTrue(was, f, g),
           UNCHANGED <<inbox, temp>>, CountsType',
           Fit(frames, was, p)
    PROVE  IndInv'
<1>1. /\ frames \in [FrameId -> SavedFrame \cup {NoFrame}]
      /\ was \in [FrameId -> SUBSET {"approved", "rejected", "completed"}]
  BY DEF IndInv, TypeOK
<1>2. g # NoFrame
  BY DEF SavedFrame, NoFrame
<1>3. Grows(frames, was, frames', was')
  BY <1>1, <1>2 DEF Grows
<1>4. Facts(g) \subseteq {"approved", "rejected", "completed"}
  BY DEF Facts
<1>5. /\ frames' \in [FrameId -> SavedFrame \cup {NoFrame}]
      /\ was' \in [FrameId -> SUBSET {"approved", "rejected", "completed"}]
      /\ inbox' \in Inbox \cup {NoInbox} /\ temp' \in Inbox \cup {NoInbox}
  BY <1>1, <1>4 DEF IndInv, TypeOK
<1>6. Fit(frames', was', p)
  BY <1>3, FitGrows
<1>7. ASSUME NEW h \in FrameId, frames'[h] # NoFrame
      PROVE  FrameIsTrue(was', h, frames'[h]) /\ Facts(frames'[h]) \subseteq was'[h]
  <2>1. CASE h = f
    <3>1. frames'[h] = g /\ was'[h] = was[h] \cup Facts(g)
      BY <1>1, <2>1
    <3>2. g.state \in SuccessStates => "approved" \in was[h]
      BY <2>1 DEF FrameIsTrue
    <3>3. g.state \in SuccessStates => "approved" \in was'[h]
      BY <3>1, <3>2
    <3>4. FrameIsTrue(was', h, g)
      BY <3>3 DEF FrameIsTrue
    <3>5. Facts(g) \subseteq was'[h]
      BY <3>1
    <3> QED
      BY <3>1, <3>4, <3>5
  <2>2. CASE h # f
    <3>1. frames'[h] = frames[h] /\ was'[h] = was[h]
      BY <1>1, <2>2
    <3>2. FrameIsTrue(was, h, frames[h]) /\ Facts(frames[h]) \subseteq was[h]
      BY <1>7, <3>1 DEF IndInv
    <3> QED
      BY <3>1, <3>2 DEF FrameIsTrue
  <2> QED
    BY <2>1, <2>2
<1>8. /\ inbox' # NoInbox => ListIsTrue(frames', was', inbox')
      /\ temp' # NoInbox => ListIsTrue(frames', was', temp')
  BY <1>3, ListGrows DEF IndInv, InboxWasTrue, TypeOK
<1>9. inbox # NoInbox
  BY DEF IndInv, SeededFirst
<1> QED
  BY <1>3, <1>5, <1>6, <1>7, <1>8, <1>9, StepInv

LEMMA RunInv == ASSUME IndInv, UNCHANGED <<guarded, raised>>, NEW w \in Window, Run(w) PROVE IndInv'
<1> DEFINE q == window[w]
           f == q.frame
           p == [q EXCEPT !.pc = "sync"]
<1>1. q \in Process /\ Fit(frames, was, q) /\ q.pc = "run"
  BY DEF IndInv, TypeOK, Run
<1>2. f \in FrameId /\ MadeFor(frames, f, q.msg)
  BY <1>1 DEF Fit, Process
<1>3. PICK o \in Outcomes :
        frames' = [frames EXCEPT ![f] = [@ EXCEPT !.state = o.state, !.action = o.action]]
  BY DEF Run
<1>4. window' = [window EXCEPT ![w] = p]
      /\ UNCHANGED <<inbox, temp, was, behind, overlaps, resets, crashes>>
  BY DEF Run
<1> DEFINE g == [frames[f] EXCEPT !.state = o.state, !.action = o.action]
<1>5. frames[f] # NoFrame /\ frames[f] \in SavedFrame
  BY <1>2 DEF MadeFor, IndInv, TypeOK
<1>6. /\ o.state \in {"WAITING_FOR_EXECUTE", "FAILED_VALIDATION", "FAILED_EXECUTION"}
      /\ o.action \in {"PENDING_APPROVAL", "NONE"}
  BY DEF Outcomes
<1>7. /\ g \in SavedFrame /\ g.of = frames[f].of
      /\ g.state = o.state /\ g.action = o.action
  BY <1>5, <1>6 DEF SavedFrame, TASKFRAME_STATES, ACTION_VALUES, PENDING_ACTION_STATUSES
<1> HIDE DEF g
<1>8. Facts(g) = {} /\ FrameIsTrue(was, f, g)
  BY <1>6, <1>7 DEF Facts, FrameIsTrue, SuccessStates
<1>9. was' = [was EXCEPT ![f] = @ \cup Facts(g)] /\ frames' = [frames EXCEPT ![f] = g]
  BY <1>2, <1>3, <1>4, <1>8 DEF IndInv, TypeOK, g
<1>10. /\ p \in Process /\ p.pc = "sync" /\ p.via = q.via /\ p.frame = q.frame
       /\ p.next = q.next /\ p.entry = q.entry /\ p.list = q.list /\ p.msg = q.msg
  BY <1>1 DEF Process
<1> HIDE DEF p
<1>11. Fit(frames, was, p)
  BY <1>1, <1>10 DEF Fit
<1> QED
  BY <1>2, <1>4, <1>5, <1>7, <1>8, <1>9, <1>10, <1>11, SameCounts, SaveInvariant DEF IndInv

\* Where a run that raises leaves the frame.
Interrupting == {"CREATED", "VALIDATING", "READY", "RUNNING", "VERIFYING",
                 "WAITING_FOR_EXECUTE", "FAILED_VALIDATION", "FAILED_EXECUTION"}

LEMMA RunRaisesTo ==
    ASSUME TypeOK, NEW w \in Window, RunRaises(w), NEW f \in FrameId, f = window[w].frame,
           frames[f] # NoFrame
    PROVE  \E g \in SavedFrame :
               /\ frames' = [frames EXCEPT ![f] = g] /\ g.of = frames[f].of
               /\ g.state \in Interrupting /\ g.action \in {"NONE", "PENDING_APPROVAL"}
<1>1. PICK st \in Interrupted \cup {<<o.state, o.action>> : o \in Outcomes} :
        frames' = [frames EXCEPT ![f] = [@ EXCEPT !.state = st[1], !.action = st[2]]]
  BY DEF RunRaises
<1>2. st[1] \in Interrupting /\ st[2] \in {"NONE", "PENDING_APPROVAL"}
  <2>1. CASE st \in Interrupted
    BY <2>1 DEF Interrupted, Interrupting
  <2>2. CASE st \in {<<o.state, o.action>> : o \in Outcomes}
    <3>1. PICK o \in Outcomes : st = <<o.state, o.action>>
      BY <2>2
    <3>2. st[1] = o.state /\ st[2] = o.action
      BY <3>1
    <3>3. o.state \in Interrupting /\ o.action \in {"NONE", "PENDING_APPROVAL"}
      BY DEF Outcomes, Interrupting
    <3> QED
      BY <3>2, <3>3
  <2> QED
    BY <1>1, <2>1, <2>2
<1> PICK state, action : state = st[1] /\ action = st[2]
  OBVIOUS
<1> DEFINE g == [frames[f] EXCEPT !.state = state, !.action = action]
<1>3. frames[f] \in SavedFrame
  BY DEF TypeOK
<1>4. g \in SavedFrame /\ g.of = frames[f].of /\ g.state = state /\ g.action = action
  <2>1. state \in TASKFRAME_STATES
    BY <1>2 DEF Interrupting, TASKFRAME_STATES
  <2>2. action \in ACTION_VALUES
    BY <1>2 DEF ACTION_VALUES, PENDING_ACTION_STATUSES
  <2> QED
    BY <1>3, <2>1, <2>2 DEF SavedFrame
<1>5. frames' = [frames EXCEPT ![f] = g]
  BY <1>1
<1> QED
  BY <1>2, <1>4, <1>5

LEMMA RunRaisesInv == ASSUME IndInv, UNCHANGED guarded, NEW w \in Window, RunRaises(w) PROVE IndInv'
<1> DEFINE q == window[w]
           f == q.frame
           p == Failing(q, Unlinked)
<1>1. q \in Process /\ Fit(frames, was, q) /\ q.pc = "run"
  BY DEF IndInv, TypeOK, RunRaises
<1>2. f \in FrameId /\ MadeFor(frames, f, q.msg)
  BY <1>1 DEF Fit, Process
<1>3. frames[f] # NoFrame /\ frames[f] \in SavedFrame /\ TypeOK
  BY <1>2 DEF MadeFor, IndInv, TypeOK
<1>4. PICK g \in SavedFrame :
        /\ frames' = [frames EXCEPT ![f] = g] /\ g.of = frames[f].of
        /\ g.state \in Interrupting /\ g.action \in {"NONE", "PENDING_APPROVAL"}
  BY <1>2, <1>3, RunRaisesTo
<1>5. window' = [window EXCEPT ![w] = p]
      /\ UNCHANGED <<inbox, temp, was, behind, overlaps, resets, crashes>>
  BY DEF RunRaises
<1>6. Facts(g) = {} /\ FrameIsTrue(was, f, g)
  BY <1>4 DEF Facts, FrameIsTrue, SuccessStates, Interrupting
<1>7. was' = [was EXCEPT ![f] = @ \cup Facts(g)]
  BY <1>2, <1>5, <1>6 DEF IndInv, TypeOK
<1>8. p \in Process /\ Fit(frames, was, p) /\ p.via # "inbox"
  <2>1. p \in Process /\ Fit(frames, was, p) /\ p.via = "failure"
    BY <1>1, FailingFit
  <2> QED
    BY <2>1
<1>9. p.msg = q.msg
  BY <1>1 DEF Failing, Updating, Process
<1>10. CountsType'
  BY <1>3, <1>5, RaisedType DEF RunRaises
<1> HIDE DEF p
<1> QED
  BY <1>1, <1>2, <1>3, <1>4, <1>5, <1>6, <1>7, <1>8, <1>9, <1>10, SaveInvariant DEF Fit

LEMMA ReportRaisesInv ==
    ASSUME IndInv, UNCHANGED guarded, NEW w \in Window, ReportRaises(w)
    PROVE  IndInv'
<1> DEFINE q == window[w]
           p == Failing(q, q.frame)
<1>1. /\ window' = [window EXCEPT ![w] = p] /\ temp' = NoInbox /\ q.via = "process"
      /\ UNCHANGED <<inbox, frames, was, overlaps, resets, crashes>>
  BY DEF ReportRaises
<1>2. q \in Process /\ Fit(frames, was, q)
  BY DEF IndInv, TypeOK
<1>3. p \in Process /\ Fit(frames, was, p)
  BY <1>2, FailingFit
<1>4. inbox # NoInbox
  BY <1>1 DEF IndInv, SeededFirst
<1>5. CountsType'
  BY <1>1, RaisedType DEF ReportRaises, IndInv
<1> HIDE DEF p
<1> QED
  BY <1>1, <1>3, <1>4, <1>5, GrowsNot, StepInv DEF IndInv, TypeOK, InboxWasTrue

(***************************************************************************)
(* Commands on the frame.                                                   *)
(***************************************************************************)

\* The window that begins a command on a frame.
LEMMA CommandedFit ==
    ASSUME IndInv, NEW f \in FrameId, frames[f] # NoFrame, NEW via \in {"approval", "other"}
    PROVE  LET q == Commanded(f, via)
           IN  /\ q \in Process /\ q.via = via /\ q.frame = f /\ q.msg = frames[f].of
               /\ q.next = "idle" /\ q.entry = Idle.entry /\ q.list = Idle.list
               /\ MadeFor(frames, f, q.msg) /\ f # Unlinked
               /\ True(frames, was, q.msg, q.entry) /\ ListIsTrue(frames, was, q.list)
<1> DEFINE q == Commanded(f, via)
<1>1. frames[f] \in SavedFrame
  BY DEF IndInv, TypeOK
<1>2. frames[f].of \in Message
  BY <1>1 DEF SavedFrame
<1>3. /\ q \in Process /\ q.via = via /\ q.frame = f /\ q.msg = frames[f].of
      /\ q.next = "idle" /\ q.entry = Idle.entry /\ q.list = Idle.list
  BY <1>2, IdleType DEF Commanded, Process
<1>4. f # Unlinked
  BY DEF FrameId, Unlinked
<1>5. True(frames, was, frames[f].of, Idle.entry) /\ ListIsTrue(frames, was, Idle.list)
  BY IdleType, SeedTrue DEF True
<1> QED
  BY <1>3, <1>4, <1>5 DEF MadeFor

\* It will save g.
LEMMA CommandInv ==
    ASSUME IndInv, UNCHANGED <<guarded, raised>>, NEW w \in Window, NEW f \in FrameId, frames[f] # NoFrame,
           NEW via \in {"approval", "other"}, NEW g \in SavedFrame,
           g.of = frames[f].of, FrameIsTrue(was, f, g),
           Begins(w, [Commanded(f, via) EXCEPT !.pc = "save", !.held = g]),
           UNCHANGED <<inbox, temp, frames, was, behind, resets, crashes>>
    PROVE  IndInv'
<1> DEFINE q == Commanded(f, via)
           p == [q EXCEPT !.pc = "save", !.held = g]
<1>1. window' = [window EXCEPT ![w] = p]
  BY DEF Begins
<1>2. CountsType'
  BY BeginsCounts DEF IndInv
<1>3. /\ q \in Process /\ q.via = via /\ q.frame = f /\ q.msg = frames[f].of
      /\ q.next = "idle" /\ q.entry = Idle.entry /\ q.list = Idle.list
      /\ MadeFor(frames, f, q.msg) /\ f # Unlinked
      /\ True(frames, was, q.msg, q.entry) /\ ListIsTrue(frames, was, q.list)
  BY CommandedFit
<1>4. /\ p \in Process /\ p.pc = "save" /\ p.via = q.via /\ p.frame = q.frame /\ p.held = g
      /\ p.next = q.next /\ p.entry = q.entry /\ p.list = q.list /\ p.msg = q.msg
  BY <1>3 DEF Process
<1> HIDE DEF p, q
<1>5. Fit(frames, was, p)
  BY <1>3, <1>4 DEF Fit
<1>6. inbox # NoInbox
  BY DEF IndInv, SeededFirst
<1> QED
  BY <1>1, <1>2, <1>4, <1>5, <1>6, LocalInv

\* A command that does not turn a frame into a success, or that finds it approved.
LEMMA SavedIsTrue ==
    ASSUME IndInv, NEW f \in FrameId, frames[f] # NoFrame, NEW g,
           g.state \notin SuccessStates \/ frames[f].action = "APPROVED"
    PROVE  FrameIsTrue(was, f, g)
<1>1. frames[f].action = "APPROVED" => "approved" \in Facts(frames[f])
  BY DEF Facts
<1> QED
  BY <1>1 DEF IndInv, FrameIsTrue

LEMMA SavesInv ==
    ASSUME IndInv, UNCHANGED <<guarded, raised>>, NEW w \in Window, NEW f \in FrameId, frames[f] # NoFrame,
           NEW g \in SavedFrame, g.of = frames[f].of, FrameIsTrue(was, f, g), Saves(w, f, g)
    PROVE  IndInv'
BY CommandInv DEF Saves

LEMMA ApproveInv ==
    ASSUME IndInv, UNCHANGED <<guarded, raised>>, NEW w \in Window, NEW f \in FrameId, Approve(w, f) PROVE IndInv'
<1> DEFINE g == [frames[f] EXCEPT !.action = "APPROVED"]
<1>1. /\ frames[f] # NoFrame /\ frames[f].state = "WAITING_FOR_EXECUTE"
      /\ Saves(w, f, g) /\ frames[f] \in SavedFrame
  BY DEF Approve, Waiting, IndInv, TypeOK
<1>2. g \in SavedFrame /\ g.of = frames[f].of /\ g.state = "WAITING_FOR_EXECUTE"
  BY <1>1 DEF SavedFrame, ACTION_VALUES, PENDING_ACTION_STATUSES
<1> HIDE DEF g
<1>3. FrameIsTrue(was, f, g)
  BY <1>2 DEF FrameIsTrue, SuccessStates
<1> QED
  BY <1>1, <1>2, <1>3, SavesInv

LEMMA ApproveAllInv ==
    ASSUME IndInv, UNCHANGED <<guarded, raised>>, NEW w \in Window, NEW f \in FrameId,
           ApproveAll(w, f)
    PROVE  IndInv'
<1> DEFINE g == ApprovedAll(frames[f])
<1>1. /\ frames[f] # NoFrame /\ frames[f] \in SavedFrame
      /\ Begins(w, [Commanded(f, "other") EXCEPT !.pc = "save", !.held = g])
      /\ UNCHANGED <<inbox, temp, frames, was, behind, resets, crashes>>
  BY DEF ApproveAll, IndInv, TypeOK
<1>2. g \in SavedFrame /\ g.of = frames[f].of /\ g.state = frames[f].state
  BY <1>1 DEF ApprovedAll, SavedFrame, ACTION_VALUES, PENDING_ACTION_STATUSES
<1> HIDE DEF g
<1>3. FrameIsTrue(was, f, g)
  BY <1>1, <1>2 DEF FrameIsTrue, IndInv
<1> QED
  BY <1>1, <1>2, <1>3, CommandInv

LEMMA RejectInv ==
    ASSUME IndInv, UNCHANGED <<guarded, raised>>, NEW w \in Window, NEW f \in FrameId, Reject(w, f) PROVE IndInv'
<1> DEFINE g == [frames[f] EXCEPT !.action = "REJECTED", !.state = "FAILED_COMPLETION"]
<1>1. frames[f] # NoFrame /\ Saves(w, f, g) /\ frames[f] \in SavedFrame
  BY DEF Reject, Waiting, IndInv, TypeOK
<1>2. g \in SavedFrame /\ g.of = frames[f].of /\ g.state = "FAILED_COMPLETION"
  BY <1>1 DEF SavedFrame, TASKFRAME_STATES, ACTION_VALUES, PENDING_ACTION_STATUSES
<1> HIDE DEF g
<1>3. FrameIsTrue(was, f, g)
  BY <1>2 DEF FrameIsTrue, SuccessStates
<1> QED
  BY <1>1, <1>2, <1>3, SavesInv

LEMMA VerdictState == ASSUME NEW g, NEW bad PROVE Verdict(g, bad) \in TASKFRAME_STATES
<1>1. Contract.required_state \in RequiredStates
  BY DEF Contract, RequiredStates
<1>2. Verdict(g, bad) \in Verdicts
  BY <1>1, VerdictType DEF Verdict
<1> QED
  BY <1>2 DEF Verdicts, TASKFRAME_STATES

LEMMA ExecutedType ==
    ASSUME NEW h \in SavedFrame, NEW g \in Executed(h)
    PROVE  g \in SavedFrame /\ g.of = h.of
<1> DEFINE done == [h EXCEPT !.action = "EXECUTED", !.executed = TRUE]
<1>1. {"EXECUTED", "FAILED"} \subseteq ACTION_VALUES /\ "FAILED_EXECUTION" \in TASKFRAME_STATES
  BY DEF ACTION_VALUES, PENDING_ACTION_STATUSES, TASKFRAME_STATES
<1>2. done \in SavedFrame /\ done.of = h.of
  BY <1>1 DEF SavedFrame
<1> HIDE DEF done
<1>3. ASSUME NEW st \in TASKFRAME_STATES, g = [done EXCEPT !.state = st]
      PROVE  g \in SavedFrame /\ g.of = h.of
  BY <1>2, <1>3 DEF SavedFrame
<1>4. CASE g = [h EXCEPT !.action = "FAILED", !.state = "FAILED_EXECUTION"]
  BY <1>1, <1>4 DEF SavedFrame
<1>5. CASE g = [done EXCEPT !.state = "FAILED_EXECUTION"]
  BY <1>1, <1>3, <1>5
<1>6. CASE \E bad \in BOOLEAN : g = [done EXCEPT !.state = Verdict(done, bad)]
  BY <1>3, <1>6, VerdictState
<1> QED
  BY <1>4, <1>5, <1>6 DEF Executed, done

LEMMA ExecuteInv ==
    ASSUME IndInv, UNCHANGED <<guarded, raised>>, NEW w \in Window, NEW f \in FrameId, Execute(w, f) PROVE IndInv'
<1>1. /\ frames[f] # NoFrame /\ frames[f].action = "APPROVED" /\ frames[f] \in SavedFrame
  BY DEF Execute, Waiting, IndInv, TypeOK
<1>2. PICK g \in Executed(frames[f]) : Saves(w, f, g)
  BY DEF Execute
<1>3. g \in SavedFrame /\ g.of = frames[f].of
  BY <1>1, ExecutedType
<1> QED
  BY <1>1, <1>2, <1>3, SavedIsTrue, SavesInv

LEMMA ExecutedAloneType ==
    ASSUME NEW h \in SavedFrame, NEW g \in ExecutedAlone(h)
    PROVE  g \in SavedFrame /\ g.of = h.of
<1>1. /\ {"APPROVED", "EXECUTED", "FAILED"} \subseteq ACTION_VALUES
      /\ "FAILED_EXECUTION" \in TASKFRAME_STATES
  BY DEF ACTION_VALUES, PENDING_ACTION_STATUSES, TASKFRAME_STATES
<1>2. CASE g = [h EXCEPT !.action = "FAILED"]
  BY <1>1, <1>2 DEF SavedFrame
<1>3. CASE \E a \in {"APPROVED", "FAILED"} :
             g = [h EXCEPT !.action = a, !.state = "FAILED_EXECUTION"]
  BY <1>1, <1>3 DEF SavedFrame
<1>4. CASE \E a \in {"APPROVED", "EXECUTED"} :
             g = [h EXCEPT !.action = a, !.executed = TRUE]
  BY <1>1, <1>4 DEF SavedFrame
<1> QED
  BY <1>2, <1>3, <1>4 DEF ExecutedAlone

LEMMA ExecuteAloneInv ==
    ASSUME IndInv, UNCHANGED <<guarded, raised>>, NEW w \in Window, NEW f \in FrameId, ExecuteAlone(w, f) PROVE IndInv'
<1>1. /\ frames[f] # NoFrame /\ frames[f].action = "APPROVED" /\ frames[f] \in SavedFrame
  BY DEF ExecuteAlone, IndInv, TypeOK
<1>2. PICK g \in ExecutedAlone(frames[f]) :
        Begins(w, [Commanded(f, "other") EXCEPT !.pc = "save", !.held = g])
  BY DEF ExecuteAlone
<1>3. g \in SavedFrame /\ g.of = frames[f].of
  BY <1>1, ExecutedAloneType
<1>4. UNCHANGED <<inbox, temp, frames, was, behind, resets, crashes>>
  BY DEF ExecuteAlone
<1> QED
  BY <1>1, <1>2, <1>3, <1>4, SavedIsTrue, CommandInv

LEMMA RefusedInv ==
    ASSUME IndInv, UNCHANGED <<guarded, raised>>, NEW w \in Window, NEW f \in FrameId, Refused(w, f) PROVE IndInv'
<1> DEFINE q == Commanded(f, "approval")
           p == [q EXCEPT !.pc = "sync"]
<1>1. /\ window' = [window EXCEPT ![w] = p] /\ Begins(w, p) /\ frames[f] # NoFrame
      /\ UNCHANGED <<inbox, temp, frames, was, behind, resets, crashes>>
  BY DEF Refused, Begins
<1>2. CountsType'
  BY <1>1, BeginsCounts DEF IndInv
<1>3. /\ q \in Process /\ q.via = "approval" /\ q.frame = f /\ q.msg = frames[f].of
      /\ q.next = "idle" /\ q.entry = Idle.entry /\ q.list = Idle.list
      /\ MadeFor(frames, f, q.msg) /\ f # Unlinked
      /\ True(frames, was, q.msg, q.entry) /\ ListIsTrue(frames, was, q.list)
  BY <1>1, CommandedFit
<1>4. /\ p \in Process /\ p.pc = "sync" /\ p.via = q.via /\ p.frame = q.frame
      /\ p.next = q.next /\ p.entry = q.entry /\ p.list = q.list /\ p.msg = q.msg
  BY <1>3 DEF Process
<1> HIDE DEF p, q
<1>5. Fit(frames, was, p)
  BY <1>3, <1>4 DEF Fit
<1>6. inbox # NoInbox
  BY <1>1 DEF IndInv, SeededFirst
<1> QED
  BY <1>1, <1>2, <1>4, <1>5, <1>6, LocalInv

LEMMA SaveInv == ASSUME IndInv, UNCHANGED <<guarded, raised>>, NEW w \in Window, Save(w) PROVE IndInv'
<1> DEFINE q == window[w]
           f == q.frame
<1>1. q \in Process /\ Fit(frames, was, q) /\ q.pc = "save"
  BY DEF IndInv, TypeOK, Save
<1>2. /\ f \in FrameId /\ MadeFor(frames, f, q.msg) /\ q.via # "inbox"
      /\ q.held \in SavedFrame /\ q.held.of = q.msg /\ FrameIsTrue(was, f, q.held)
  BY <1>1 DEF Fit, Process
<1>3. UNCHANGED <<inbox, temp, overlaps, resets, crashes>>
  BY DEF Save
<1>4. CountsType'
  BY <1>2, <1>3 DEF Save, Behind, IndInv, TypeOK, CountsType
<1>5. PICK p \in {[q EXCEPT !.pc = "sync", !.held = Idle.held], Idle} :
        window' = [window EXCEPT ![w] = p]
  BY DEF Save, IndInv, TypeOK
<1>6. p \in Process /\ Fit(frames, was, p)
  <2>1. CASE p = Idle
    BY <2>1, IdleType, IdleFit
  <2>2. CASE p = [q EXCEPT !.pc = "sync", !.held = Idle.held]
    <3>1. /\ p \in Process /\ p.pc = "sync" /\ p.via = q.via /\ p.frame = q.frame
          /\ p.next = q.next /\ p.entry = q.entry /\ p.list = q.list /\ p.msg = q.msg
      BY <1>1, <2>2, IdleType DEF Process
    <3> QED
      BY <1>1, <3>1 DEF Fit
  <2> QED
    BY <1>5, <2>1, <2>2
<1>7. CASE /\ frames' = [frames EXCEPT ![f] = q.held]
           /\ was' = [was EXCEPT ![f] = @ \cup Facts(q.held)]
  <2>1. frames[f] # NoFrame /\ q.held.of = frames[f].of
    BY <1>2 DEF MadeFor
  <2> QED
    BY <1>2, <1>3, <1>4, <1>5, <1>6, <1>7, <2>1, SaveInvariant
<1>8. CASE UNCHANGED <<frames, was>>
  <2>1. inbox # NoInbox
    BY <1>2 DEF IndInv, SeededFirst
  <2> QED
    BY <1>3, <1>4, <1>5, <1>6, <1>8, <2>1, LocalInv
<1> QED
  BY <1>7, <1>8 DEF Save

(***************************************************************************)
(* The frame's outcome is copied to the message.                            *)
(***************************************************************************)

\* What is copied from a saved frame is true of it.
LEMMA CopiedIsTrue ==
    ASSUME IndInv, NEW f \in FrameId, frames[f] # NoFrame, NEW via,
           NEW s \in StatusToWrite(via, frames[f])
    PROVE  s \in ALLOWED_STATUSES /\ True(frames, was, frames[f].of, [status |-> s, link |-> f])
<1> DEFINE g == frames[f]
           e == [status |-> s, link |-> f]
<1>1. FrameIsTrue(was, f, g) /\ Facts(g) \subseteq was[f]
  BY DEF IndInv
<1>2. MadeFor(frames, e.link, g.of) /\ e.link # Unlinked /\ e.status = s /\ e.link = f
  BY DEF MadeFor, FrameId, Unlinked
<1>3. /\ s \in ALLOWED_STATUSES
      /\ s = "APPROVED" => g.action = "APPROVED"
      /\ s = "EXECUTED_DRY_RUN" => g.state \in SuccessStates
      /\ s = "REJECTED" => g.action = "REJECTED"
  <2>1. CASE via = "process"
    BY <2>1 DEF StatusToWrite, ProcessedStatus, ALLOWED_STATUSES
  <2>2. CASE via # "process"
    BY <2>2 DEF StatusToWrite, ApprovalStatus, ALLOWED_STATUSES
  <2> QED
    BY <2>1, <2>2
<1>4. /\ g.action = "APPROVED" => "approved" \in Facts(g)
      /\ g.action = "REJECTED" => "rejected" \in Facts(g)
      /\ g.state \in SuccessStates => "completed" \in Facts(g)
  BY DEF Facts
<1>5. /\ s \in {"APPROVED", "EXECUTED_DRY_RUN"} => "approved" \in was[f]
      /\ s = "EXECUTED_DRY_RUN" => "completed" \in was[f]
      /\ s = "REJECTED" => "rejected" \in was[f]
  BY <1>1, <1>3, <1>4 DEF FrameIsTrue
<1> HIDE DEF e
<1>6. True(frames, was, g.of, e)
  BY <1>2, <1>5 DEF True
<1> QED
  BY <1>3, <1>6 DEF e

LEMMA SyncInv == ASSUME IndInv, UNCHANGED <<guarded, raised>>, NEW w \in Window, Sync(w) PROVE IndInv'
<1> DEFINE q == window[w]
           f == q.frame
           found == StatusToWrite(q.via, frames[f])
           s == CHOOSE x \in found : TRUE
           p == IF found = {} THEN Idle ELSE Updating(q, s, f, "idle")
<1>1. q \in Process /\ Fit(frames, was, q) /\ q.pc = "sync"
  BY DEF IndInv, TypeOK, Sync
<1>2. f \in FrameId /\ MadeFor(frames, f, q.msg) /\ q.via # "inbox"
  BY <1>1 DEF Fit, Process
<1>3. frames[f] # NoFrame /\ frames[f].of = q.msg
  BY <1>2 DEF MadeFor
<1>4. /\ window' = [window EXCEPT ![w] = p] /\ behind' = Behind(behind \ {f})
      /\ UNCHANGED <<inbox, temp, frames, was, overlaps, resets, crashes>>
  BY DEF Sync
<1>5. CountsType'
  BY <1>4 DEF Behind, IndInv, TypeOK, CountsType
<1>6. inbox # NoInbox
  BY <1>2 DEF IndInv, SeededFirst
<1>7. p \in Process /\ Fit(frames, was, p)
  <2>1. CASE found = {}
    BY <2>1, IdleType, IdleFit
  <2>2. CASE found # {}
    <3>1. s \in found
      BY <2>2
    <3> HIDE DEF s
    <3>2. s \in ALLOWED_STATUSES /\ True(frames, was, q.msg, [status |-> s, link |-> f])
      BY <1>2, <1>3, <3>1, CopiedIsTrue
    <3>3. p = Updating(q, s, f, "idle")
      BY <2>2
    <3> HIDE DEF p, found, f, q
    <3> QED
      BY <1>1, <1>2, <3>2, <3>3, UpdatingFit
  <2> QED
    BY <2>1, <2>2
<1> HIDE DEF p
<1> QED
  BY <1>4, <1>5, <1>6, <1>7, LocalInv

LEMMA CrashInv == ASSUME IndInv, UNCHANGED <<guarded, raised>>, NEW w \in Window, Crash(w) PROVE IndInv'
<1>1. /\ window' = [window EXCEPT ![w] = Idle] /\ crashes' = crashes + 1
      /\ resets + crashes + raised < MaxAccidents
      /\ behind' = Behind(behind \cup ({window[w].frame} \ {Unlinked}))
      /\ UNCHANGED <<inbox, temp, frames, was, overlaps, resets>>
  BY DEF Crash
<1>2. window[w].frame \in FrameId \cup {Unlinked}
  BY DEF IndInv, TypeOK, Process
<1>3. behind' \subseteq FrameId
  BY <1>1, <1>2 DEF Behind, IndInv, TypeOK
<1>4. overlaps' \in 0..MaxOverlaps /\ resets' \in 0..MaxAccidents
  BY <1>1 DEF IndInv, TypeOK
<1>5. crashes' \in 0..MaxAccidents
  <2>1. /\ resets \in 0..MaxAccidents /\ crashes \in 0..MaxAccidents
        /\ raised \in 0..MaxAccidents
    BY DEF IndInv, TypeOK
  <2>2. crashes' = crashes + 1 /\ resets + crashes + raised < MaxAccidents
    BY <1>1
  <2> QED
    BY <2>1, <2>2, CustomerInboxAssumption
<1>6. CountsType'
  BY <1>3, <1>4, <1>5 DEF CountsType, IndInv, TypeOK
<1> QED
  BY <1>1, <1>6, IdleType, IdleFit, LocalInv

(***************************************************************************)
(* The theorems.                                                            *)
(***************************************************************************)

LEMMA InvInit == Init => IndInv
<1> SUFFICES ASSUME Init PROVE IndInv
  OBVIOUS
<1>1. TypeOK
  BY IdleType, CustomerInboxAssumption DEF Init, TypeOK
<1>2. \A w \in Window : window[w] = Idle
  BY DEF Init
<1>3. \A w \in Window : Fit(frames, was, window[w])
  BY <1>2, IdleFit
<1>4. SeededFirst
  BY <1>2, IdleType DEF Init, SeededFirst
<1> QED
  BY <1>1, <1>3, <1>4 DEF Init, IndInv, InboxWasTrue

LEMMA InvNext == IndInv /\ [Next]_vars => IndInv'
<1> SUFFICES ASSUME IndInv, [Next]_vars PROVE IndInv'
  OBVIOUS
<1>1. CASE UNCHANGED vars
  BY <1>1 DEF vars, IndInv, TypeOK, InboxWasTrue, SeededFirst
<1>2. ASSUME NEW w \in Window, Operation(w), UNCHANGED <<guarded, raised>> PROVE IndInv'
  BY <1>2, SeedInv, ResetInv, ProcessMessageInv, ApproveInv, ApproveAllInv, RejectInv, ExecuteInv,
     ExecuteAloneInv, RefusedInv DEF Operation
<1>3. ASSUME NEW w \in Window, Progress(w), UNCHANGED <<guarded, raised>> PROVE IndInv'
  BY <1>3, LoadInv, WriteTempInv, ReplaceInv, CleanInv, CreateInv, CreateRaisesInv, RunInv,
     SaveInv, SyncInv DEF Progress
<1>4. ASSUME NEW w \in Window, Crash(w), UNCHANGED <<guarded, raised>> PROVE IndInv'
  BY <1>4, CrashInv
<1>5. ASSUME NEW w \in Window, RunRaises(w) \/ ReportRaises(w), UNCHANGED guarded PROVE IndInv'
  BY <1>5, RunRaisesInv, ReportRaisesInv
<1> QED
  BY <1>1, <1>2, <1>3, <1>4, <1>5 DEF Next

(***************************************************************************)
(* Windows that work one after the other.                                   *)
(***************************************************************************)

\* No window but w is at work.
Alone(w) == \A v \in Window : v = w \/ IsIdle(v)

\* The frame that the inbox may say less than the truth of, because of p.
At(p) == IF p.pc \in {"run", "sync", "load", "write", "replace"} THEN {p.frame} ELSE {}

FramesSettled == \A f \in FrameId : IF frames[f] = NoFrame THEN was[f] = {}
                                                           ELSE Settled(frames[f], was[f])

OneWaits == Undisturbed => \A m \in Message \ guarded : \A f, g \in WaitsFor(m) : f = g

\* What the inbox says while p is at work.
InboxFits(p) ==
    inbox # NoInbox =>
        /\ ListSays(inbox, behind \cup At(p))
        /\ ListIsFresh(inbox)
        /\ crashes = 0 => \A m \in Message : inbox[m].status = "PROCESSING" => Marking(p, m)

\* Serial, said of the window that is at work.
SerialFor(p) == FramesSettled /\ OneWaits /\ AloneFit(p) /\ InboxFits(p)

LEMMA SerialAlone ==
    ASSUME TypeOK, Serial, NEW w \in Window, Alone(w)
    PROVE  SerialFor(window[w])
<1> DEFINE q == window[w]
<1>1. FramesSettled /\ OneWaits /\ AloneFit(q)
  BY DEF Serial, FramesSettled, OneWaits
<1>2. Stale \subseteq behind \cup At(q)
  BY DEF Stale, At, Alone, IsIdle
<1>3. ASSUME inbox # NoInbox PROVE ListSays(inbox, behind \cup At(q)) /\ ListIsFresh(inbox)
  <2>1. ListSays(inbox, Stale) /\ ListIsFresh(inbox)
    BY <1>3 DEF Serial
  <2> QED
    BY <1>2, <2>1 DEF ListSays, Says
<1>4. ASSUME inbox # NoInbox, crashes = 0, NEW m \in Message, inbox[m].status = "PROCESSING"
      PROVE  Marking(q, m)
  <2>1. PICK v \in Window : Marking(window[v], m)
    BY <1>4 DEF Serial
  <2> QED
    BY <2>1 DEF Marking, Alone, IsIdle
<1> QED
  BY <1>1, <1>3, <1>4 DEF SerialFor, InboxFits

\* An idle window relies on nothing.
LEMMA IdleRelies ==
    ASSUME NEW q, q.pc = "idle", q.next # "create" PROVE AloneFit(q)
BY DEF AloneFit, MayMake

LEMMA IdleReliesOn ==
    ASSUME NEW q, q.pc = "idle", q.next # "create" PROVE AloneFit(q)'
BY DEF AloneFit, MayMake

LEMMA AloneSerial ==
    ASSUME TypeOK, Serial, NEW w \in Window, Alone(w), NEW p,
           window' = [window EXCEPT ![w] = p], SerialFor(p)'
    PROVE  Serial'
<1>0. window \in [Window -> Process] /\ window'[w] = p
  BY DEF TypeOK
<1>1. \A v \in Window : v # w => window'[v] = window[v] /\ IsIdle(v)
  BY <1>0 DEF Alone
<1>2. (\A u, v \in Window : IsIdle(u) \/ IsIdle(v) \/ u = v)'
  BY <1>1 DEF IsIdle
<1>3. ASSUME NEW v \in Window PROVE AloneFit(window[v])'
  <2>1. CASE v = w
    BY <1>0, <2>1 DEF SerialFor
  <2>2. CASE v # w
    <3>1. PICK q : q = window[v]
      OBVIOUS
    <3>2. q.pc = "idle" /\ q.next # "create" /\ q = window'[v]
      BY <1>1, <2>2, <3>1 DEF Serial, AloneFit, IsIdle
    <3>3. AloneFit(q)'
      BY <3>2, IdleReliesOn
    <3> QED
      BY <3>2, <3>3
  <2> QED
    BY <2>1, <2>2
<1>4. behind' \cup At(p) \subseteq Stale'
  BY <1>0 DEF Stale, At
<1>5. ASSUME inbox' # NoInbox PROVE ListSays(inbox, Stale)' /\ ListIsFresh(inbox)'
  <2>1. ListSays(inbox, behind \cup At(p))' /\ ListIsFresh(inbox)'
    BY <1>5 DEF SerialFor, InboxFits
  <2> QED
    BY <1>4, <2>1 DEF ListSays, Says
<1>6. ASSUME inbox' # NoInbox, crashes' = 0, NEW m \in Message, inbox'[m].status = "PROCESSING"
      PROVE  \E v \in Window : Marking(window'[v], m)
  <2>1. Marking(p, m)
    BY <1>6 DEF SerialFor, InboxFits
  <2> QED
    BY <1>0, <2>1
<1>7. FramesSettled' /\ OneWaits'
  BY DEF SerialFor
<1> QED
  BY <1>2, <1>3, <1>5, <1>6, <1>7 DEF Serial, FramesSettled, OneWaits

\* Steps that leave the frames alone.
LEMMA FramesRest ==
    ASSUME UNCHANGED <<frames, was, guarded>>, Undisturbed' => Undisturbed
    PROVE  /\ \A m \in Message : WaitsFor(m)' = WaitsFor(m)
           /\ FramesSettled => FramesSettled'
           /\ OneWaits => OneWaits'
BY DEF WaitsFor, MadeFor, FramesSettled, Settled, OneWaits

\* Only the window that begins is then at work.
LEMMA BeginsAlone ==
    ASSUME TypeOK, NEW w \in Window, NEW p, Begins(w, p), overlaps' = 0
    PROVE  overlaps = 0 /\ IsIdle(w) /\ Alone(w)
BY DEF TypeOK, Begins, Alone

\* A window begins, and relies on nothing that is not so.
LEMMA BeginsSerial ==
    ASSUME TypeOK, SerialInv, NEW w \in Window, NEW p, Begins(w, p),
           UNCHANGED <<inbox, temp, frames, was, behind, crashes, guarded, raised>>,
           Undisturbed' => Undisturbed,
           Serial => AloneFit(p)'
    PROVE  SerialInv'
<1> SUFFICES ASSUME overlaps' = 0 PROVE Serial'
  BY DEF SerialInv
<1>1. overlaps = 0 /\ window[w].pc = "idle" /\ Alone(w) /\ window' = [window EXCEPT ![w] = p]
  BY BeginsAlone DEF IsIdle, Begins
<1>2. Serial /\ SerialFor(window[w])
  BY <1>1, SerialAlone DEF SerialInv
<1>3. FramesSettled' /\ OneWaits'
  BY <1>2, FramesRest DEF SerialFor
<1>4. InboxFits(p)'
  <2>1. ASSUME inbox # NoInbox PROVE ListSays(inbox, behind \cup At(p))'
    <3>1. ListSays(inbox, behind)
      BY <1>1, <1>2, <2>1 DEF SerialFor, InboxFits, At
    <3> QED
      BY <3>1 DEF ListSays, Says
  <2>2. ASSUME inbox # NoInbox PROVE ListIsFresh(inbox)'
    <3>1. ListIsFresh(inbox)
      BY <1>2, <2>2 DEF SerialFor, InboxFits
    <3> QED
      BY <3>1, FramesRest DEF ListIsFresh
  <2>3. ASSUME inbox # NoInbox, crashes = 0, NEW m \in Message
        PROVE  inbox[m].status # "PROCESSING"
    BY <1>1, <1>2, <2>3 DEF SerialFor, InboxFits, Marking
  <2> QED
    BY <2>1, <2>2, <2>3 DEF InboxFits
<1>5. SerialFor(p)'
  BY <1>2, <1>3, <1>4 DEF SerialFor
<1> QED
  BY <1>1, <1>2, <1>5, AloneSerial

\* The seed list says of every message that it is new.
LEMMA SeedFits ==
    ASSUME NEW p, p.next = "idle", Undisturbed => \A m \in Message : WaitsFor(m) = {}
    PROVE  ListFits(SEED_MESSAGES, p)
<1>1. \A m \in Message : SEED_MESSAGES[m].status = "NEW" /\ SEED_MESSAGES[m].link = Unlinked
  BY DEF SEED_MESSAGES
<1>2. Unlinked \notin FrameId
  BY DEF Unlinked, FrameId
<1> QED
  BY <1>1, <1>2 DEF ListFits, ListSays, Says, ListIsFresh

LEMMA OverwritingRelies ==
    ASSUME Undisturbed => \A m \in Message : WaitsFor(m) = {}
    PROVE  AloneFit([Idle EXCEPT !.pc = "write"])
<1> DEFINE p == [Idle EXCEPT !.pc = "write"]
<1>1. p.pc = "write" /\ p.next = "idle" /\ p.list = SEED_MESSAGES
  BY IdleType DEF Process
<1> HIDE DEF p
<1>2. ListFits(p.list, p)
  BY <1>1, SeedFits
<1>3. AloneFit(p)
  BY <1>1, <1>2 DEF AloneFit, MayMake
<1> QED
  BY <1>3 DEF p

LEMMA SeedSerial ==
    ASSUME IndInv, SerialInv, UNCHANGED <<guarded, raised>>, NEW w \in Window, Seed(w) PROVE SerialInv'
<1> DEFINE p == [Idle EXCEPT !.pc = "write"]
<1>1. Begins(w, p) /\ UNCHANGED <<inbox, temp, frames, was, behind, resets, crashes>>
  BY DEF Seed, Overwriting
<1>2. \A m \in Message : WaitsFor(m) = {}
  BY DEF Seed, IndInv, SeededFirst, WaitsFor, MadeFor
<1>3. AloneFit(p)
  BY <1>2, OverwritingRelies
<1> HIDE DEF p
<1>4. AloneFit(p)'
  BY <1>1, <1>3 DEF AloneFit, ListFits, ListSays, Says, ListIsFresh, MayMake, WaitsFor, MadeFor,
     Undisturbed
<1> QED
  BY <1>1, <1>4, BeginsSerial DEF IndInv, Undisturbed

LEMMA ResetSerial ==
    ASSUME IndInv, SerialInv, UNCHANGED <<guarded, raised>>, NEW w \in Window, Reset(w) PROVE SerialInv'
<1> DEFINE p == [Idle EXCEPT !.pc = "write"]
<1>1. /\ Begins(w, p) /\ UNCHANGED <<inbox, temp, frames, was, behind, crashes>>
      /\ resets' = resets + 1
  BY DEF Reset, Overwriting
<1>2. resets' # 0
  BY <1>1 DEF IndInv, TypeOK
<1>3. p.pc = "write" /\ p.next = "idle" /\ p.list = SEED_MESSAGES
  BY IdleType DEF Process
<1>4. \A m \in Message : SEED_MESSAGES[m].status = "NEW" /\ SEED_MESSAGES[m].link = Unlinked
  BY DEF SEED_MESSAGES
<1>5. Unlinked \notin FrameId
  BY DEF Unlinked, FrameId
<1> HIDE DEF p
<1>6. ListFits(p.list, p)'
  BY <1>2, <1>3, <1>4, <1>5 DEF ListFits, ListSays, Says, ListIsFresh, Undisturbed
<1>7. AloneFit(p)'
  BY <1>3, <1>6 DEF AloneFit, MayMake
<1> QED
  BY <1>1, <1>2, <1>7, BeginsSerial DEF IndInv, Undisturbed

LEMMA SameRelies ==
    ASSUME NEW p, AloneFit(p),
           UNCHANGED <<inbox, temp, frames, was, behind, resets, crashes, guarded, raised>>
    PROVE  AloneFit(p)'
BY DEF AloneFit, ListFits, ListSays, Says, ListIsFresh, MayMake, WaitsFor, MadeFor, Undisturbed

LEMMA ProcessMessageSerial ==
    ASSUME IndInv, SerialInv, UNCHANGED <<guarded, raised>>, NEW w \in Window, NEW m \in Message,
           ProcessMessage(w, m)
    PROVE  SerialInv'
<1> DEFINE q == [Idle EXCEPT !.via = "process", !.msg = m]
           p == Updating(q, "PROCESSING", Unlinked, "create")
<1>1. /\ Begins(w, p) /\ UNCHANGED <<inbox, temp, frames, was, behind, resets, crashes>>
      /\ inbox # NoInbox /\ inbox[m].status \in Processable
  BY DEF ProcessMessage
<1>2. /\ p.pc = "load" /\ p.via = "process" /\ p.msg = m /\ p.next = "create"
      /\ p.entry = [status |-> "PROCESSING", link |-> Unlinked]
  BY IdleType DEF Process, Updating
<1> HIDE DEF p
<1>3. ASSUME Serial PROVE AloneFit(p)
  <2>1. ListIsFresh(inbox)
    BY <1>1, <1>3 DEF Serial
  <2>2. Undisturbed /\ m \notin guarded => WaitsFor(m) = {}
    BY <1>1, <2>1 DEF ListIsFresh
  <2>3. MayMake(p)
    BY <1>2, <2>2 DEF MayMake, Processable
  <2>4. Says(p.entry, behind)
    BY <1>2 DEF Says
  <2> QED
    BY <1>2, <2>3, <2>4 DEF AloneFit, Undisturbed
<1>4. Serial => AloneFit(p)'
  BY <1>1, <1>3, SameRelies
<1> QED
  BY <1>1, <1>4, BeginsSerial DEF IndInv, Undisturbed

\* A command begins whose copy of the frame is settled.
LEMMA CommandSerial ==
    ASSUME IndInv, SerialInv, UNCHANGED <<guarded, raised>>, NEW w \in Window, NEW f \in FrameId,
           NEW via \in {"approval", "other"}, NEW g,
           frames[f] # NoFrame,
           Settled(frames[f], was[f]) => Settled(g, was[f]),
           g.state = "WAITING_FOR_EXECUTE" => frames[f].state = "WAITING_FOR_EXECUTE",
           Begins(w, [Commanded(f, via) EXCEPT !.pc = "save", !.held = g]),
           UNCHANGED <<inbox, temp, frames, was, behind, resets, crashes>>
    PROVE  SerialInv'
<1> DEFINE q == Commanded(f, via)
           p == [q EXCEPT !.pc = "save", !.held = g]
<1>1. q \in Process /\ q.via = via /\ q.frame = f /\ q.next = "idle"
  BY CommandedFit
<1>2. p.pc = "save" /\ p.via = via /\ p.frame = f /\ p.next = "idle" /\ p.held = g
  BY <1>1 DEF Process
<1>3. Begins(w, p)
  OBVIOUS
<1> HIDE DEF p, q
<1>4. ASSUME Serial PROVE AloneFit(p)
  <2>1. Settled(g, was[f])
    BY <1>4 DEF Serial
  <2> QED
    BY <1>2, <2>1 DEF AloneFit, MayMake
<1> QED
  BY <1>3, <1>4, SameRelies, BeginsSerial DEF IndInv, Undisturbed

LEMMA ApproveSerial ==
    ASSUME IndInv, SerialInv, UNCHANGED <<guarded, raised>>, NEW w \in Window, NEW f \in FrameId,
           Approve(w, f)
    PROVE  SerialInv'
<1> DEFINE g == [frames[f] EXCEPT !.action = "APPROVED"]
<1>1. /\ frames[f] # NoFrame /\ frames[f].state = "WAITING_FOR_EXECUTE"
      /\ frames[f].action = "PENDING_APPROVAL" /\ frames[f] \in SavedFrame /\ Saves(w, f, g)
  BY DEF Approve, Waiting, IndInv, TypeOK
<1>2. g.state = "WAITING_FOR_EXECUTE" /\ g.action = "APPROVED"
  BY <1>1 DEF SavedFrame
<1> HIDE DEF g
<1>3. Settled(frames[f], was[f]) => Settled(g, was[f])
  BY <1>1, <1>2 DEF Settled
<1> QED
  BY <1>1, <1>2, <1>3, CommandSerial DEF Saves

LEMMA ApproveAllSerial ==
    ASSUME IndInv, SerialInv, UNCHANGED <<guarded, raised>>, NEW w \in Window, NEW f \in FrameId,
           ApproveAll(w, f)
    PROVE  SerialInv'
<1> DEFINE g == ApprovedAll(frames[f])
<1>1. /\ frames[f] # NoFrame /\ frames[f] \in SavedFrame
      /\ Begins(w, [Commanded(f, "other") EXCEPT !.pc = "save", !.held = g])
      /\ UNCHANGED <<inbox, temp, frames, was, behind, resets, crashes>>
  BY DEF ApproveAll, IndInv, TypeOK
<1>2. /\ g.state = frames[f].state
      /\ \/ g.action = frames[f].action
         \/ /\ frames[f].action = "PENDING_APPROVAL"
            /\ g.action = "APPROVED"
  <2>1. CASE frames[f].action = "PENDING_APPROVAL"
    <3>1. g = [frames[f] EXCEPT !.action = "APPROVED"]
      BY <2>1 DEF ApprovedAll
    <3> QED
      BY <1>1, <2>1, <3>1 DEF SavedFrame
  <2>2. CASE frames[f].action # "PENDING_APPROVAL"
    <3>1. g = [frames[f] EXCEPT !.action = frames[f].action]
      BY <2>2 DEF ApprovedAll
    <3> QED
      BY <1>1, <3>1 DEF SavedFrame
  <2> QED
    BY <2>1, <2>2
<1> HIDE DEF g
<1>3. Settled(frames[f], was[f]) => Settled(g, was[f])
  BY <1>1, <1>2 DEF Settled
<1> QED
  BY <1>1, <1>2, <1>3, CommandSerial

LEMMA RejectSerial ==
    ASSUME IndInv, SerialInv, UNCHANGED <<guarded, raised>>, NEW w \in Window, NEW f \in FrameId,
           Reject(w, f)
    PROVE  SerialInv'
<1> DEFINE g == [frames[f] EXCEPT !.action = "REJECTED", !.state = "FAILED_COMPLETION"]
<1>1. /\ frames[f] # NoFrame /\ frames[f].state = "WAITING_FOR_EXECUTE"
      /\ frames[f].action = "PENDING_APPROVAL" /\ frames[f] \in SavedFrame /\ Saves(w, f, g)
  BY DEF Reject, Waiting, IndInv, TypeOK
<1>2. g.state = "FAILED_COMPLETION" /\ g.action = "REJECTED"
  BY <1>1 DEF SavedFrame
<1> HIDE DEF g
<1>3. Settled(frames[f], was[f]) => Settled(g, was[f])
  BY <1>1, <1>2 DEF Settled, SuccessStates
<1> QED
  BY <1>1, <1>2, <1>3, CommandSerial DEF Saves

\* The gate on a frame whose reply has been sent: its output and its action are
\* there, so that only a validation can fail.
LEMMA VerdictIs ==
    ASSUME NEW g, NEW bad \in BOOLEAN, g.action = "EXECUTED"
    PROVE  Verdict(g, bad) \in {"FAILED_VALIDATION", "COMPLETED"}
<1> DEFINE f == [ status |-> <<"STAGED">>, output |-> <<"value">>,
                  action |-> <<g.action>>, badValidation |-> bad, frameError |-> FALSE ]
<1>1. /\ f.status = <<"STAGED">> /\ f.output = <<"value">> /\ f.action = <<"EXECUTED">>
      /\ f.badValidation = bad /\ f.frameError = FALSE
  OBVIOUS
<1> HIDE DEF f
<1>2. StepsOf(f, {"FAILED"}) = {}
  BY <1>1 DEF StepsOf
<1>3. ActionsOf(f, InFlight) = {} /\ ActionsOf(f, {"REJECTED"}) = {}
  BY <1>1 DEF ActionsOf, InFlight
<1>4. 1 \in ActionsOf(f, PENDING_ACTION_STATUSES)
  BY <1>1 DEF ActionsOf, PENDING_ACTION_STATUSES
<1>5. OutputsOf(f, {"value"}) = {1} /\ OutputsOf(f, {"empty"}) = {}
  BY <1>1 DEF OutputsOf
<1>6. /\ Contract.allow_pending_approval = TRUE /\ Contract.success_outputs = {1}
      /\ Contract.acceptable_empty_outputs = {} /\ Contract.success_pending_actions = {1}
      /\ Contract.success_executed_actions = {} /\ Contract.required_state = ""
  BY DEF Contract
<1>7. ~ActionsUnmet(Contract, f) /\ ~OutputsUnmet(Contract, f)
  BY <1>3, <1>4, <1>5, <1>6 DEF ActionsUnmet, OutputsUnmet
<1>8. SuccessVerdict(Contract, f) = "COMPLETED"
  BY <1>5, <1>6 DEF SuccessVerdict, RequiredOr
<1>9. EvaluateCompletion(Contract, f) \in {"FAILED_VALIDATION", "COMPLETED"}
  BY <1>1, <1>2, <1>3, <1>7, <1>8 DEF EvaluateCompletion, HasFailure, FailureVerdict
<1> QED
  BY <1>9 DEF Verdict, f

LEMMA ExecutedSettled ==
    ASSUME NEW h \in SavedFrame, NEW facts, NEW g \in Executed(h),
           h.state = "WAITING_FOR_EXECUTE", Settled(h, facts)
    PROVE  Settled(g, facts) /\ g.state # "WAITING_FOR_EXECUTE"
<1> DEFINE done == [h EXCEPT !.action = "EXECUTED", !.executed = TRUE]
<1>1. "completed" \notin facts /\ "rejected" \notin facts
  BY DEF Settled
<1>2. done.action = "EXECUTED" /\ DOMAIN done = {"of", "state", "action", "executed"}
  BY DEF SavedFrame
<1>3. CASE g = [h EXCEPT !.action = "FAILED", !.state = "FAILED_EXECUTION"]
  <2>1. g.action = "FAILED" /\ g.state = "FAILED_EXECUTION"
    BY <1>3 DEF SavedFrame
  <2> QED
    BY <1>1, <2>1 DEF Settled, SuccessStates
<1>4. ASSUME NEW st \in {"FAILED_EXECUTION", "FAILED_VALIDATION", "COMPLETED"},
             g = [done EXCEPT !.state = st]
      PROVE  Settled(g, facts) /\ g.state # "WAITING_FOR_EXECUTE"
  <2>1. g.action = "EXECUTED" /\ g.state = st
    BY <1>2, <1>4
  <2> QED
    BY <1>1, <2>1 DEF Settled, SuccessStates
<1> HIDE DEF done
<1>5. CASE \E bad \in BOOLEAN : g = [done EXCEPT !.state = Verdict(done, bad)]
  BY <1>2, <1>4, <1>5, VerdictIs
<1> QED
  BY <1>3, <1>4, <1>5 DEF Executed, done

LEMMA ExecuteSerial ==
    ASSUME IndInv, SerialInv, UNCHANGED <<guarded, raised>>, NEW w \in Window, NEW f \in FrameId,
           Execute(w, f)
    PROVE  SerialInv'
<1>1. /\ frames[f] # NoFrame /\ frames[f].state = "WAITING_FOR_EXECUTE"
      /\ frames[f] \in SavedFrame
  BY DEF Execute, Waiting, IndInv, TypeOK
<1>2. PICK g \in Executed(frames[f]) : Saves(w, f, g)
  BY DEF Execute
<1>3. Settled(frames[f], was[f]) => Settled(g, was[f])
  BY <1>1, ExecutedSettled
<1> QED
  BY <1>1, <1>2, <1>3, CommandSerial DEF Saves

LEMMA ExecutedAloneSettled ==
    ASSUME NEW h \in SavedFrame, NEW facts, NEW g \in ExecutedAlone(h),
           h.action = "APPROVED", Settled(h, facts)
    PROVE  /\ Settled(g, facts)
           /\ g.state = "WAITING_FOR_EXECUTE" => h.state = "WAITING_FOR_EXECUTE"
<1>1. CASE g = [h EXCEPT !.action = "FAILED"]
  <2>1. g.action = "FAILED" /\ g.state = h.state
    BY <1>1 DEF SavedFrame
  <2> QED
    BY <2>1 DEF Settled
<1>2. CASE /\ h.state = "WAITING_FOR_EXECUTE"
           /\ \E a \in {"APPROVED", "FAILED"} :
                g = [h EXCEPT !.action = a, !.state = "FAILED_EXECUTION"]
  <2>1. g.action \in {"APPROVED", "FAILED"} /\ g.state = "FAILED_EXECUTION"
    BY <1>2 DEF SavedFrame
  <2> QED
    BY <1>2, <2>1 DEF Settled, SuccessStates
<1>3. CASE \E a \in {"APPROVED", "EXECUTED"} :
             g = [h EXCEPT !.action = a, !.executed = TRUE]
  <2>1. g.action \in {"APPROVED", "EXECUTED"} /\ g.state = h.state
    BY <1>3 DEF SavedFrame
  <2> QED
    BY <2>1 DEF Settled
<1> QED
  BY <1>1, <1>2, <1>3 DEF ExecutedAlone

LEMMA ExecuteAloneSerial ==
    ASSUME IndInv, SerialInv, UNCHANGED <<guarded, raised>>, NEW w \in Window, NEW f \in FrameId,
           ExecuteAlone(w, f)
    PROVE  SerialInv'
<1>1. frames[f] # NoFrame /\ frames[f].action = "APPROVED" /\ frames[f] \in SavedFrame
  BY DEF ExecuteAlone, IndInv, TypeOK
<1>2. PICK g \in ExecutedAlone(frames[f]) :
        Begins(w, [Commanded(f, "other") EXCEPT !.pc = "save", !.held = g])
  BY DEF ExecuteAlone
<1>3. UNCHANGED <<inbox, temp, frames, was, behind, resets, crashes>>
  BY DEF ExecuteAlone
<1>4. CASE Settled(frames[f], was[f])
  BY <1>1, <1>2, <1>3, <1>4, ExecutedAloneSettled, CommandSerial
<1>5. CASE ~Settled(frames[f], was[f])
  <2>1. ~Serial
    BY <1>1, <1>5 DEF Serial
  <2> QED
    BY <1>2, <1>3, <2>1, BeginsSerial DEF IndInv, Undisturbed
<1> QED
  BY <1>4, <1>5

LEMMA RefusedSerial ==
    ASSUME IndInv, SerialInv, UNCHANGED <<guarded, raised>>, NEW w \in Window, NEW f \in FrameId,
           Refused(w, f)
    PROVE  SerialInv'
<1> DEFINE q == Commanded(f, "approval")
           p == [q EXCEPT !.pc = "sync"]
<1>1. /\ Begins(w, p) /\ frames[f] # NoFrame
      /\ UNCHANGED <<inbox, temp, frames, was, behind, resets, crashes>>
  BY DEF Refused
<1>2. q \in Process /\ q.via = "approval" /\ q.frame = f /\ q.next = "idle"
  BY <1>1, CommandedFit
<1>3. p.pc = "sync" /\ p.via = "approval" /\ p.next = "idle"
  BY <1>2 DEF Process
<1> HIDE DEF p, q
<1>4. AloneFit(p)
  BY <1>3 DEF AloneFit, MayMake
<1> QED
  BY <1>1, <1>4, SameRelies, BeginsSerial DEF IndInv, Undisturbed

\* A window goes on, and no other is at work.
LEMMA GoesOnSerial ==
    ASSUME TypeOK, SerialInv, NEW w \in Window, NEW p, ~IsIdle(w), UNCHANGED overlaps,
           window' = [window EXCEPT ![w] = p],
           Alone(w) /\ overlaps = 0 /\ SerialFor(window[w]) => SerialFor(p)'
    PROVE  SerialInv'
<1> SUFFICES ASSUME overlaps' = 0 PROVE Serial'
  BY DEF SerialInv
<1>1. overlaps = 0 /\ Serial
  BY DEF SerialInv
<1>2. Alone(w)
  BY <1>1 DEF Serial, Alone
<1> QED
  BY <1>1, <1>2, SerialAlone, AloneSerial

\* A step that leaves the frames and the inbox's file alone: what the inbox says
\* is still said while p is at work.
LEMMA InboxRests ==
    ASSUME NEW q, NEW p, InboxFits(q),
           UNCHANGED <<inbox, frames, was, guarded>>,
           crashes' = 0 => crashes = 0, Undisturbed' => Undisturbed,
           (behind \cup At(q)) \cap FrameId \subseteq behind' \cup At(p),
           crashes' = 0 => \A m \in Message : Marking(q, m) => Marking(p, m)
    PROVE  InboxFits(p)'
<1> SUFFICES ASSUME inbox # NoInbox
             PROVE  (/\ ListSays(inbox, behind \cup At(p))
                     /\ ListIsFresh(inbox)
                     /\ crashes = 0 => \A m \in Message :
                            inbox[m].status = "PROCESSING" => Marking(p, m))'
  BY DEF InboxFits
<1>1. ListSays(inbox, behind \cup At(q)) /\ ListIsFresh(inbox)
  BY DEF InboxFits
<1>2. ListSays(inbox, behind \cup At(p))'
  BY <1>1 DEF ListSays, Says
<1>3. ListIsFresh(inbox)'
  BY <1>1, FramesRest DEF ListIsFresh, Undisturbed
<1>4. (crashes = 0 => \A m \in Message : inbox[m].status = "PROCESSING" => Marking(p, m))'
  BY DEF InboxFits
<1> QED
  BY <1>2, <1>3, <1>4

\* What merging one entry into the inbox gives is what the inbox should say.
LEMMA MergedFits ==
    ASSUME IndInv, NEW q \in Process, q.pc = "load", inbox # NoInbox, AloneFit(q),
           InboxFits(q), Fit(frames, was, q), NEW p, p.msg = q.msg, p.next = q.next
    PROVE  ListFits(Merged(inbox, q), p)
<1> DEFINE list == Merged(inbox, q)
<1>1. q.msg \in Message /\ q.entry \in Entry /\ inbox \in Inbox /\ inbox[q.msg] \in Entry
  BY DEF Process, Inbox, IndInv, TypeOK
<1>2. \A m \in Message : m # q.msg => list[m] = inbox[m]
  BY <1>1 DEF Merged, Inbox
<1>3. IF q.entry.status = "PROCESSING" THEN list[q.msg].status = "PROCESSING"
                                       ELSE list[q.msg] = q.entry
  BY <1>1 DEF Merged, Inbox, Entry
<1> HIDE DEF list
<1>4. ListSays(inbox, behind \cup {q.frame}) /\ ListIsFresh(inbox)
  BY DEF InboxFits, At
<1>5. ASSUME NEW m \in Message \ guarded PROVE Says(list[m], behind)
  <2>1. CASE m = q.msg
    <3>1. CASE q.entry.status = "PROCESSING"
      BY <1>3, <2>1, <3>1 DEF Says
    <3>2. CASE q.entry.status # "PROCESSING"
      <4>1. Says(q.entry, behind)
        BY <2>1 DEF AloneFit
      <4> QED
        BY <1>3, <2>1, <3>2, <4>1 DEF Says
    <3> QED
      BY <3>1, <3>2
  <2>2. CASE m # q.msg
    <3>1. Says(inbox[m], behind \cup {q.frame})
      BY <1>4 DEF ListSays
    <3>2. True(frames, was, m, inbox[m])
      BY DEF IndInv, InboxWasTrue, ListIsTrue
    <3>3. inbox[m].link \in FrameId => inbox[m].link # q.frame
      BY <2>2, <3>2 DEF True, Fit, MadeFor, FrameId, Unlinked
    <3> QED
      BY <1>2, <2>2, <3>1, <3>3 DEF Says
  <2> QED
    BY <2>1, <2>2
<1>6. ASSUME Undisturbed, NEW m \in Message \ guarded, list[m].status \in Processable
      PROVE  WaitsFor(m) = {}
  <2>1. CASE m = q.msg
    <3>1. q.entry.status \in Processable
      BY <1>3, <1>6, <2>1 DEF Processable
    <3> QED
      BY <1>6, <2>1, <3>1 DEF AloneFit, MayMake
  <2>2. CASE m # q.msg
    BY <1>2, <1>4, <1>6, <2>2 DEF ListIsFresh
  <2> QED
    BY <2>1, <2>2
<1>7. ASSUME crashes = 0, NEW m \in Message, list[m].status = "PROCESSING"
      PROVE  m = q.msg /\ q.next = "create"
  <2>1. CASE m = q.msg
    BY <1>3, <1>7, <2>1 DEF AloneFit
  <2>2. CASE m # q.msg
    BY <1>2, <1>7, <2>2 DEF InboxFits, Marking
  <2> QED
    BY <2>1, <2>2
<1>8. q.next = "create" => list[q.msg].status = "PROCESSING"
  BY <1>3 DEF AloneFit
<1> QED
  BY <1>5, <1>6, <1>7, <1>8 DEF ListFits, ListSays, ListIsFresh, list

LEMMA LoadSerial ==
    ASSUME IndInv, SerialInv, UNCHANGED <<guarded, raised>>, NEW w \in Window, Load(w) PROVE SerialInv'
<1> PICK q : q = window[w]
  OBVIOUS
<1> PICK list : list = Merged(inbox, q)
  OBVIOUS
<1> DEFINE p == [q EXCEPT !.pc = "write", !.list = list, !.entry = Idle.entry]
<1>1. window' = [window EXCEPT ![w] = p]
      /\ UNCHANGED <<inbox, temp, frames, was, behind, overlaps, resets, crashes>>
  BY DEF Load, GoesOn
<1>2. q \in Process /\ Fit(frames, was, q) /\ q.pc = "load" /\ ~IsIdle(w)
  BY DEF IndInv, TypeOK, Load, IsIdle
<1>3. inbox # NoInbox
  BY <1>2 DEF IndInv, SeededFirst, Fit
<1>4. /\ p.pc = "write" /\ p.via = q.via /\ p.frame = q.frame /\ p.next = q.next
      /\ p.list = list /\ p.msg = q.msg
  BY <1>2 DEF Process
<1> HIDE DEF p
<1>5. ASSUME SerialFor(q) PROVE SerialFor(p)'
  <2>1. ListFits(list, p)
    BY <1>2, <1>3, <1>4, <1>5, MergedFits DEF SerialFor
  <2>2. MayMake(p)
    BY <1>2, <1>4, <1>5 DEF SerialFor, AloneFit, MayMake
  <2>3. AloneFit(p)
    BY <1>2, <1>4, <1>5, <2>1, <2>2 DEF SerialFor, AloneFit
  <2>4. AloneFit(p)'
    BY <1>1, <2>3, SameRelies
  <2>5. InboxFits(p)'
    <3>1. At(p) = At(q)
      BY <1>2, <1>4 DEF At
    <3>2. \A m \in Message : Marking(q, m) => Marking(p, m)
      BY <1>2, <1>4 DEF Marking
    <3> QED
      BY <1>1, <1>5, <3>1, <3>2, InboxRests DEF SerialFor, Undisturbed
  <2> QED
    BY <1>1, <1>5, <2>4, <2>5, FramesRest DEF SerialFor, Undisturbed
<1> QED
  BY <1>1, <1>2, <1>5, GoesOnSerial DEF IndInv

LEMMA WriteTempSerial ==
    ASSUME IndInv, SerialInv, UNCHANGED <<guarded, raised>>, NEW w \in Window, WriteTemp(w) PROVE SerialInv'
<1> PICK q : q = window[w]
  OBVIOUS
<1> DEFINE p == [q EXCEPT !.pc = "replace", !.list = SEED_MESSAGES]
<1>1. window' = [window EXCEPT ![w] = p] /\ temp' = q.list
      /\ UNCHANGED <<inbox, frames, was, behind, overlaps, resets, crashes>>
  BY DEF WriteTemp
<1>2. q \in Process /\ q.pc = "write" /\ ~IsIdle(w)
  BY DEF IndInv, TypeOK, WriteTemp, IsIdle
<1>3. /\ p.pc = "replace" /\ p.via = q.via /\ p.frame = q.frame /\ p.next = q.next
      /\ p.msg = q.msg
  BY <1>2 DEF Process
<1>4. q.list \in Inbox /\ q.list # NoInbox
  BY <1>2, CustomerInboxAssumption DEF Process, Inbox, NoInbox
<1> HIDE DEF p
<1>5. ASSUME SerialFor(q) PROVE SerialFor(p)'
  <2>1. ListFits(q.list, q) /\ MayMake(q)
    BY <1>2, <1>5 DEF SerialFor, AloneFit
  <2>2. ListFits(temp, p)'
    BY <1>1, <1>3, <2>1 DEF ListFits, ListSays, Says, ListIsFresh, WaitsFor, MadeFor,
     Undisturbed
  <2>3. MayMake(p)'
    BY <1>1, <1>2, <1>3, <2>1, FramesRest DEF MayMake, WaitsFor, MadeFor, Undisturbed
  <2>4. AloneFit(p)'
    BY <1>1, <1>2, <1>3, <1>4, <1>5, <2>2, <2>3 DEF SerialFor, AloneFit
  <2>5. InboxFits(p)'
    <3>1. At(p) = At(q)
      BY <1>2, <1>3 DEF At
    <3>2. \A m \in Message : Marking(q, m) => Marking(p, m)
      BY <1>2, <1>3 DEF Marking
    <3> QED
      BY <1>1, <1>5, <3>1, <3>2, InboxRests DEF SerialFor, Undisturbed
  <2> QED
    BY <1>1, <1>5, <2>4, <2>5, FramesRest DEF SerialFor, Undisturbed
<1> QED
  BY <1>1, <1>2, <1>5, GoesOnSerial DEF IndInv

LEMMA ReplaceSerial ==
    ASSUME IndInv, SerialInv, UNCHANGED <<guarded, raised>>, NEW w \in Window, Replace(w) PROVE SerialInv'
<1> PICK q : q = window[w]
  OBVIOUS
<1> DEFINE p == [q EXCEPT !.pc = IF temp = NoInbox THEN "raise" ELSE "clean"]
<1>0. TypeOK
  BY DEF IndInv
<1>1. window' = [window EXCEPT ![w] = [q EXCEPT !.pc = IF temp = NoInbox THEN "raise" ELSE "clean"]]
      /\ UNCHANGED <<frames, was, behind, overlaps, resets, crashes>>
  BY DEF Replace, IndInv, TypeOK
<1>2. q \in Process /\ q.pc = "replace" /\ ~IsIdle(w)
  BY DEF IndInv, TypeOK, Replace, IsIdle
<1> PICK pp : pp = p
  OBVIOUS
<1>3. ASSUME Alone(w) /\ overlaps = 0 /\ SerialFor(q) PROVE SerialFor(pp)'
  <2>1. temp # NoInbox /\ ListFits(temp, q) /\ MayMake(q)
    BY <1>2, <1>3 DEF SerialFor, AloneFit
  <2>2. inbox' = temp /\ temp' = NoInbox
    BY <2>1 DEF Replace
  <2>3. /\ pp.pc = "clean" /\ pp.via = q.via /\ pp.frame = q.frame /\ pp.next = q.next
        /\ pp.msg = q.msg
    BY <1>2, <2>1 DEF Process
  <2>4. ListSays(temp, behind) /\ ListIsFresh(temp)
    BY <2>1 DEF ListFits
  <2>5. MayMake(pp)'
    BY <1>1, <1>2, <2>1, <2>3 DEF MayMake, WaitsFor, MadeFor, Undisturbed
  <2>6. pp.next = "create" => inbox'[pp.msg].status = "PROCESSING"
    BY <2>1, <2>2, <2>3 DEF ListFits
  <2>7. AloneFit(pp)'
    BY <1>2, <1>3, <2>3, <2>5, <2>6 DEF SerialFor, AloneFit
  <2>8. ListSays(inbox, behind \cup At(pp))' /\ ListIsFresh(inbox)'
    BY <1>1, <2>2, <2>4 DEF ListSays, Says, ListIsFresh, WaitsFor, MadeFor, Undisturbed
  <2>9. ASSUME crashes = 0, NEW m \in Message, temp[m].status = "PROCESSING"
        PROVE  Marking(pp, m)
    BY <1>2, <1>3, <2>1, <2>3, <2>9 DEF ListFits, Marking, SerialFor, AloneFit
  <2>10. InboxFits(pp)'
    BY <1>1, <2>2, <2>8, <2>9 DEF InboxFits
  <2> QED
    BY <1>1, <1>3, <2>7, <2>10, FramesRest DEF SerialFor, Undisturbed
<1> QED
  BY <1>0, <1>1, <1>2, <1>3, GoesOnSerial

LEMMA CleanSerial ==
    ASSUME IndInv, SerialInv, UNCHANGED <<guarded, raised>>, NEW w \in Window, Clean(w) PROVE SerialInv'
<1> PICK q : q = window[w]
  OBVIOUS
<1> PICK p : p = IF q.pc = "clean" THEN AfterSave(q) ELSE AfterRaise(q)
  OBVIOUS
<1>1. window' = [window EXCEPT ![w] = p] /\ temp' = NoInbox
      /\ UNCHANGED <<inbox, frames, was, behind, overlaps, resets, crashes>>
  BY DEF Clean
<1>2. q \in Process /\ q.pc \in {"clean", "raise"} /\ ~IsIdle(w)
  BY DEF IndInv, TypeOK, Clean, IsIdle
<1>3. ASSUME SerialFor(q) PROVE SerialFor(p)'
  <2>1. q.pc = "clean" /\ p = AfterSave(q)
    BY <1>2, <1>3 DEF SerialFor, AloneFit
  <2>2. At(q) = {}
    BY <2>1 DEF At
  <2>3. CASE q.next = "create"
    <3>1. /\ p.pc = "create" /\ p.next = "idle" /\ p.via = q.via /\ p.msg = q.msg
      BY <1>2, <2>1, <2>3 DEF AfterSave, Process
    <3>2. q.via = "process" /\ inbox[q.msg].status = "PROCESSING" /\ MayMake(q)
      BY <1>3, <2>1, <2>3 DEF SerialFor, AloneFit
    <3>3. MayMake(p)'
      BY <1>1, <2>3, <3>1, <3>2 DEF MayMake, WaitsFor, MadeFor, Undisturbed
    <3>4. AloneFit(p)'
      BY <1>1, <3>1, <3>2, <3>3 DEF AloneFit
    <3>5. \A m \in Message : Marking(q, m) => Marking(p, m)
      BY <3>1 DEF Marking
    <3>6. InboxFits(p)'
      BY <1>1, <1>3, <2>2, <3>5, InboxRests DEF SerialFor, Undisturbed
    <3> QED
      BY <1>1, <1>3, <3>4, <3>6, FramesRest DEF SerialFor, Undisturbed
  <2>4. CASE q.next # "create"
    <3>1. p = Idle
      BY <2>1, <2>4 DEF AfterSave
    <3>2. AloneFit(p)'
      BY <3>1, IdleType, IdleReliesOn
    <3>3. \A m \in Message : ~Marking(q, m)
      BY <2>1, <2>4 DEF Marking
    <3>4. InboxFits(p)'
      BY <1>1, <1>3, <2>2, <3>3, InboxRests DEF SerialFor, Undisturbed
    <3> QED
      BY <1>1, <1>3, <3>2, <3>4, FramesRest DEF SerialFor, Undisturbed
  <2> QED
    BY <2>3, <2>4
<1> QED
  BY <1>1, <1>2, <1>3, GoesOnSerial DEF IndInv

LEMMA CreateRaisesSerial ==
    ASSUME IndInv, SerialInv, UNCHANGED <<guarded, raised>>, NEW w \in Window, CreateRaises(w)
    PROVE  SerialInv'
<1> PICK q : q = window[w]
  OBVIOUS
<1> DEFINE p == Failing(q, Unlinked)
<1>1. window' = [window EXCEPT ![w] = p]
      /\ UNCHANGED <<inbox, temp, frames, was, behind, overlaps, resets, crashes>>
  BY DEF CreateRaises, GoesOn
<1>2. q \in Process /\ q.pc = "create" /\ ~IsIdle(w)
  BY DEF IndInv, TypeOK, CreateRaises, IsIdle
<1>3. /\ p.pc = "load" /\ p.via = "failure" /\ p.next = "idle" /\ p.msg = q.msg
      /\ p.entry = [status |-> "FAILED", link |-> Unlinked]
  BY <1>2 DEF Failing, Updating, Process
<1> HIDE DEF p
<1>4. ASSUME SerialFor(q) PROVE SerialFor(p)'
  <2>1. MayMake(p)
    BY <1>2, <1>3, <1>4 DEF SerialFor, AloneFit, MayMake
  <2>2. Says(p.entry, behind)
    BY <1>3 DEF Says, FrameId, Unlinked
  <2>3. AloneFit(p)
    BY <1>3, <2>1, <2>2 DEF AloneFit
  <2>4. AloneFit(p)'
    BY <1>1, <2>3, SameRelies
  <2>5. At(q) = {}
    BY <1>2 DEF At
  <2>6. \A m \in Message : Marking(q, m) => Marking(p, m)
    BY <1>3 DEF Marking
  <2>7. InboxFits(p)'
    BY <1>1, <1>4, <2>5, <2>6, InboxRests DEF SerialFor, Undisturbed
  <2> QED
    BY <1>1, <1>4, <2>4, <2>7, FramesRest DEF SerialFor, Undisturbed
<1> QED
  BY <1>1, <1>2, <1>4, GoesOnSerial DEF IndInv

LEMMA CrashSerial ==
    ASSUME IndInv, SerialInv, UNCHANGED <<guarded, raised>>, NEW w \in Window, Crash(w) PROVE SerialInv'
<1> PICK q : q = window[w]
  OBVIOUS
<1>1. /\ window' = [window EXCEPT ![w] = Idle] /\ crashes' = crashes + 1
      /\ behind' = Behind(behind \cup ({q.frame} \ {Unlinked}))
      /\ UNCHANGED <<inbox, temp, frames, was, overlaps, resets>>
  BY DEF Crash
<1>2. ~IsIdle(w) /\ crashes' # 0
  BY <1>1 DEF IndInv, TypeOK, Crash
<1> PICK p : p = Idle
  OBVIOUS
<1>3. ASSUME overlaps = 0, SerialFor(q) PROVE SerialFor(p)'
  <2>1. AloneFit(p)'
    BY IdleType, IdleReliesOn
  <2>2. behind' = behind \cup ({q.frame} \ {Unlinked})
    BY <1>1, <1>3 DEF Behind
  <2>3. (behind \cup At(q)) \cap FrameId \subseteq behind' \cup At(p)
    BY <2>2 DEF At, FrameId, Unlinked
  <2>4. InboxFits(p)'
    BY <1>1, <1>2, <1>3, <2>3, InboxRests DEF SerialFor, Undisturbed
  <2> QED
    BY <1>1, <1>3, <2>1, <2>4, FramesRest DEF SerialFor, Undisturbed
<1> QED
  BY <1>1, <1>2, <1>3, GoesOnSerial DEF IndInv

\* The status that is copied says what the frame is.
LEMMA CopiedSays ==
    ASSUME NEW q, NEW f \in FrameId, f = q.frame, q.pc = "sync",
           frames[f] # NoFrame, frames[f].of = q.msg, Settled(frames[f], was[f]),
           AloneFit(q), q.next = "idle",
           NEW s \in StatusToWrite(q.via, frames[f])
    PROVE  /\ s # "PROCESSING"
           /\ q.msg \notin guarded => Says([status |-> s, link |-> f], {})
           /\ (Undisturbed /\ q.msg \notin guarded /\ s \in Processable) => WaitsFor(q.msg) = {}
<1> DEFINE g == frames[f]
<1>1. CASE q.via = "process"
  <2>1. PICK o \in Outcomes : g.state = o.state /\ g.action = o.action
    BY <1>1 DEF AloneFit
  <2>2. \/ g.state = "WAITING_FOR_EXECUTE" /\ g.action = "PENDING_APPROVAL"
        \/ g.state \in {"FAILED_VALIDATION", "FAILED_EXECUTION"}
    BY <2>1 DEF Outcomes
  <2>3. CASE q.msg \in guarded
    BY <1>1, <2>3 DEF StatusToWrite
  <2>4. CASE q.msg \notin guarded
    <3>1. s \in ProcessedStatus(g)
      BY <1>1, <2>4 DEF StatusToWrite
    <3>2. \/ g.state = "WAITING_FOR_EXECUTE" /\ s = "STAGED_REPLY"
          \/ g.state # "WAITING_FOR_EXECUTE" /\ s = "FAILED"
      BY <2>2, <3>1 DEF ProcessedStatus, SuccessStates
    <3>3. s \in StatusesFor(g)
      BY <2>2, <3>2 DEF StatusesFor
    <3>4. Says([status |-> s, link |-> f], {})
      BY <3>2, <3>3 DEF Says
    <3>5. Undisturbed /\ s \in Processable => WaitsFor(q.msg) = {}
      <4> SUFFICES ASSUME Undisturbed, s \in Processable PROVE WaitsFor(q.msg) = {}
        OBVIOUS
      <4>1. WaitsFor(q.msg) \subseteq {f}
        BY <1>1, <2>4 DEF AloneFit, MayMake
      <4>2. f \notin WaitsFor(q.msg)
        BY <3>2 DEF WaitsFor, Processable
      <4> QED
        BY <4>1, <4>2
    <3> QED
      BY <3>2, <3>4, <3>5
  <2> QED
    BY <2>3, <2>4
<1>2. CASE q.via # "process"
  <2>1. s \in ApprovalStatus(g)
    BY <1>2 DEF StatusToWrite
  <2>2. CASE g.state = "WAITING_FOR_EXECUTE"
    <3>1. s = IF g.action = "APPROVED" THEN "APPROVED" ELSE "STAGED_REPLY"
      BY <2>1, <2>2 DEF ApprovalStatus, SuccessStates
    <3>2. s \in StatusesFor(g)
      BY <2>2, <3>1 DEF StatusesFor
    <3> QED
      BY <3>1, <3>2 DEF Says, Processable
  <2>3. CASE g.state \in SuccessStates
    <3>1. s = "EXECUTED_DRY_RUN" /\ g.state = "COMPLETED"
      BY <2>1, <2>3 DEF ApprovalStatus, Settled, SuccessStates
    <3>2. s \in StatusesFor(g)
      BY <3>1 DEF StatusesFor
    <3> QED
      BY <3>1, <3>2 DEF Says, Processable
  <2>4. CASE g.state = "FAILED_COMPLETION"
    <3>1. s = "REJECTED"
      BY <2>1, <2>4 DEF ApprovalStatus, Settled, SuccessStates
    <3>2. s \in StatusesFor(g)
      BY <2>4, <3>1 DEF StatusesFor
    <3> QED
      BY <3>1, <3>2 DEF Says, Processable
  <2> QED
    BY <2>1, <2>2, <2>3, <2>4 DEF ApprovalStatus
<1> QED
  BY <1>1, <1>2

\* When nothing is copied, the message says what the frame is as it stands.
LEMMA NothingToCopy ==
    ASSUME NEW f \in FrameId, Settled(frames[f], was[f]), ApprovalStatus(frames[f]) = {},
           NEW m \in Message, NEW e \in Entry, e.link = f, e.status # "PROCESSING",
           True(frames, was, m, e), NEW stale, Says(e, stale)
    PROVE  e.status \in StatusesFor(frames[f])
<1>1. frames[f].state \notin SuccessStates \cup {"WAITING_FOR_EXECUTE", "FAILED_COMPLETION"}
  BY DEF ApprovalStatus
<1>2. StatusesFor(frames[f]) = {"FAILED", "STAGED_REPLY", "APPROVED"}
  BY <1>1 DEF StatusesFor, SuccessStates
<1>3. e.status # "EXECUTED_DRY_RUN" /\ e.status # "REJECTED"
  BY <1>1 DEF True, Settled, SuccessStates
<1>4. e.status # "COMPLETED" /\ e.status # "NEW"
  BY DEF Says, FrameId, Unlinked
<1> QED
  BY <1>2, <1>3, <1>4 DEF Entry, ALLOWED_STATUSES

LEMMA SyncSerial ==
    ASSUME IndInv, SerialInv, UNCHANGED <<guarded, raised>>, NEW w \in Window, Sync(w) PROVE SerialInv'
<1> PICK q : q = window[w]
  OBVIOUS
<1> PICK found : found = StatusToWrite(q.via, frames[q.frame])
  OBVIOUS
<1> PICK f : f = q.frame
  OBVIOUS
<1> PICK s : s = CHOOSE x \in found : TRUE
  OBVIOUS
<1> PICK p : p = IF found = {} THEN Idle ELSE Updating(q, s, f, "idle")
  OBVIOUS
<1>1. /\ window' = [window EXCEPT ![w] = p] /\ behind' = Behind(behind \ {f})
      /\ UNCHANGED <<inbox, temp, frames, was, overlaps, resets, crashes>>
  BY DEF Sync
<1>2. /\ q \in Process /\ Fit(frames, was, q) /\ q.pc = "sync" /\ ~IsIdle(w)
  BY DEF IndInv, TypeOK, Sync, IsIdle
<1>3. f \in FrameId /\ frames[f] # NoFrame /\ frames[f].of = q.msg
  BY <1>2 DEF Fit, Process, MadeFor
<1>4. inbox # NoInbox /\ inbox \in Inbox /\ ListIsTrue(frames, was, inbox)
  BY <1>2 DEF IndInv, TypeOK, InboxWasTrue, SeededFirst, Fit
<1>5. ASSUME overlaps = 0, SerialFor(q) PROVE SerialFor(p)'
  <2>1. behind' = behind \ {f} /\ At(q) = {f}
    BY <1>1, <1>2, <1>5 DEF Behind, At
  <2>2. Settled(frames[f], was[f]) /\ AloneFit(q) /\ q.next = "idle"
    BY <1>2, <1>3, <1>5 DEF SerialFor, FramesSettled, AloneFit, Process
  <2>3. CASE found # {}
    <3>1. s \in found
      BY <2>3
    <3>2. /\ s # "PROCESSING"
          /\ q.msg \notin guarded => Says([status |-> s, link |-> f], {})
          /\ (Undisturbed /\ q.msg \notin guarded /\ s \in Processable) => WaitsFor(q.msg) = {}
      BY <1>2, <1>3, <2>2, <3>1, CopiedSays
    <3>3. /\ p.pc = "load" /\ p.via = q.via /\ p.frame = f /\ p.next = "idle"
          /\ p.msg = q.msg /\ p.entry = [status |-> s, link |-> f]
      BY <1>2, <2>3 DEF Updating, Process
    <3>4. p.entry.status = s /\ \A m \in Message : WaitsFor(m)' = WaitsFor(m)
      BY <1>1, <3>3, FramesRest DEF Undisturbed
    <3>5. AloneFit(p)'
      <4>1. MayMake(p)'
        <5>1. q.msg \in Message /\ p.msg = q.msg
          BY <1>2, <3>3 DEF Process
        <5>2. WaitsFor(p.msg)' = WaitsFor(q.msg)
          BY <3>4, <5>1
        <5> QED
          BY <1>1, <3>2, <3>3, <3>4, <5>1, <5>2 DEF MayMake, Undisturbed
      <4>2. p.msg \notin guarded => Says(p.entry, behind)'
        BY <1>1, <3>2, <3>3 DEF Says
      <4>3. p.entry.status = "PROCESSING" <=> p.next = "create"
        BY <3>2, <3>3, <3>4
      <4> QED
        BY <1>1, <3>3, <4>1, <4>2, <4>3 DEF AloneFit
    <3>6. (behind \cup At(q)) \cap FrameId \subseteq behind' \cup At(p)
      BY <2>1, <3>3 DEF At
    <3>7. \A m \in Message : Marking(q, m) => Marking(p, m)
      BY <3>3 DEF Marking
    <3>8. InboxFits(p)'
      BY <1>1, <1>5, <3>6, <3>7, InboxRests DEF SerialFor, Undisturbed
    <3> QED
      BY <1>1, <1>5, <3>5, <3>8, FramesRest DEF SerialFor, Undisturbed
  <2>4. CASE found = {}
    <3>1. p = Idle
      BY <2>4
    <3>2. AloneFit(p)'
      BY <3>1, IdleType, IdleReliesOn
    <3>3. q.via = "approval" /\ ApprovalStatus(frames[f]) = {}
      <4>1. q.via # "process"
        BY <2>4 DEF StatusToWrite, ProcessedStatus
      <4> QED
        BY <1>2, <2>2, <2>4, <4>1 DEF StatusToWrite, AloneFit
    <3>4. ListSays(inbox, behind \cup {f})
      BY <1>4, <1>5, <2>1 DEF SerialFor, InboxFits
    <3>5. ASSUME NEW m \in Message \ guarded PROVE Says(inbox[m], behind \ {f})
      <4> DEFINE e == inbox[m]
      <4>1. e \in Entry /\ True(frames, was, m, e) /\ Says(e, behind \cup {f})
        BY <1>4, <3>4 DEF Inbox, ListIsTrue, ListSays
      <4> HIDE DEF e
      <4>2. e.link = f /\ e.status # "PROCESSING" => e.status \in StatusesFor(frames[f])
        BY <1>3, <2>2, <3>3, <4>1, NothingToCopy
      <4>3. Says(e, behind \ {f})
        BY <4>1, <4>2 DEF Says
      <4> QED
        BY <4>3 DEF e
    <3>6. ListSays(inbox, behind \cup At(p))'
      BY <1>1, <2>1, <3>5 DEF ListSays, Says
    <3>7. ListIsFresh(inbox)'
      BY <1>1, <1>4, <1>5, FramesRest DEF SerialFor, InboxFits, ListIsFresh, Undisturbed
    <3>8. ASSUME crashes = 0, NEW m \in Message PROVE inbox[m].status # "PROCESSING"
      BY <1>4, <1>5, <3>3, <3>8 DEF SerialFor, InboxFits, Marking
    <3>9. InboxFits(p)'
      BY <1>1, <3>6, <3>7, <3>8 DEF InboxFits
    <3> QED
      BY <1>1, <1>5, <3>2, <3>9, FramesRest DEF SerialFor, Undisturbed
  <2> QED
    BY <2>3, <2>4
<1> QED
  BY <1>1, <1>2, <1>5, GoesOnSerial DEF IndInv

\* One frame changes, and waits only if p has made it wait.
LEMMA FrameChanges ==
    ASSUME TypeOK, NEW q, NEW p, SerialFor(q), NEW f \in FrameId, NEW g \in SavedFrame,
           frames' = [frames EXCEPT ![f] = g],
           was' = [was EXCEPT ![f] = @ \cup Facts(g)],
           frames[f] # NoFrame => g.of = frames[f].of,
           Settled(g, was[f] \cup Facts(g)),
           UNCHANGED <<inbox, crashes, guarded>>, Undisturbed' => Undisturbed,
           g.state = "WAITING_FOR_EXECUTE" /\ Undisturbed' /\ g.of \notin guarded =>
               /\ WaitsFor(g.of) \subseteq {f}
               /\ inbox # NoInbox /\ inbox[g.of].status \in Processable =>
                      f \in WaitsFor(g.of),
           (behind \cup At(q) \cup {f}) \cap FrameId \subseteq behind' \cup At(p),
           \A m \in Message : Marking(q, m) => Marking(p, m)
    PROVE  FramesSettled' /\ OneWaits' /\ InboxFits(p)'
<1>1. /\ frames \in [FrameId -> SavedFrame \cup {NoFrame}]
      /\ was \in [FrameId -> SUBSET {"approved", "rejected", "completed"}]
  BY DEF TypeOK
<1>2. g # NoFrame
  BY DEF SavedFrame, NoFrame
<1>3. /\ frames'[f] = g /\ was'[f] = was[f] \cup Facts(g)
      /\ \A h \in FrameId \ {f} : frames'[h] = frames[h] /\ was'[h] = was[h]
  BY <1>1
<1>4. FramesSettled'
  BY <1>2, <1>3 DEF SerialFor, FramesSettled
<1>5. \A m \in Message : WaitsFor(m)' \ {f} = WaitsFor(m) \ {f}
  BY <1>3 DEF WaitsFor, MadeFor
<1>6. \A m \in Message : f \in WaitsFor(m)' => m = g.of /\ g.state = "WAITING_FOR_EXECUTE"
  BY <1>3 DEF WaitsFor, MadeFor
<1>7. OneWaits'
  <2> SUFFICES ASSUME Undisturbed', NEW m \in Message \ guarded,
                      NEW h \in WaitsFor(m)', NEW k \in WaitsFor(m)'
               PROVE  h = k
    BY DEF OneWaits
  <2>1. CASE f \in WaitsFor(m)'
    <3>1. WaitsFor(m) \subseteq {f}
      BY <1>6, <2>1
    <3> QED
      BY <1>5, <3>1
  <2>2. CASE f \notin WaitsFor(m)'
    <3>1. h \in WaitsFor(m) /\ k \in WaitsFor(m)
      BY <1>5, <2>2
    <3> QED
      BY <3>1 DEF SerialFor, OneWaits
  <2> QED
    BY <2>1, <2>2
<1>8. InboxFits(p)'
  <2> SUFFICES ASSUME inbox # NoInbox
               PROVE  (/\ ListSays(inbox, behind \cup At(p))
                       /\ ListIsFresh(inbox)
                       /\ crashes = 0 => \A m \in Message :
                              inbox[m].status = "PROCESSING" => Marking(p, m))'
    BY DEF InboxFits
  <2>1. ListSays(inbox, behind \cup At(q)) /\ ListIsFresh(inbox)
    BY DEF SerialFor, InboxFits
  <2>2. ListSays(inbox, behind \cup At(p))'
    BY <1>3, <2>1 DEF ListSays, Says
  <2>3. ListIsFresh(inbox)'
    <3> SUFFICES ASSUME Undisturbed', NEW m \in Message \ guarded,
                        inbox[m].status \in Processable
                 PROVE  WaitsFor(m)' = {}
      BY DEF ListIsFresh
    <3>1. WaitsFor(m) = {}
      BY <2>1 DEF ListIsFresh
    <3>2. f \notin WaitsFor(m)'
      BY <1>6, <3>1
    <3> QED
      BY <1>5, <3>1, <3>2
  <2>4. (crashes = 0 => \A m \in Message : inbox[m].status = "PROCESSING" => Marking(p, m))'
    BY DEF SerialFor, InboxFits
  <2> QED
    BY <2>2, <2>3, <2>4
<1> QED
  BY <1>4, <1>7, <1>8

LEMMA CreateSerial ==
    ASSUME IndInv, SerialInv, UNCHANGED <<guarded, raised>>, NEW w \in Window, Create(w) PROVE SerialInv'
<1> PICK q : q = window[w]
  OBVIOUS
<1>1. q \in Process /\ q.pc = "create" /\ ~IsIdle(w) /\ q.msg \in Message
  BY DEF IndInv, TypeOK, Create, IsIdle, Process
<1>2. PICK f \in FrameId :
        /\ frames[f] = NoFrame
        /\ frames' = [frames EXCEPT ![f] = Created(q.msg)]
        /\ window' = [window EXCEPT ![w].pc = "run", ![w].frame = f]
  BY DEF Create
<1>3. UNCHANGED <<inbox, temp, was, behind, overlaps, resets, crashes>>
  BY DEF Create
<1> DEFINE p == [q EXCEPT !.pc = "run", !.frame = f]
           g == Created(q.msg)
<1>4. window' = [window EXCEPT ![w] = p]
  BY <1>2 DEF IndInv, TypeOK
<1>5. /\ p.pc = "run" /\ p.via = q.via /\ p.frame = f /\ p.next = q.next /\ p.msg = q.msg
  BY <1>1 DEF Process
<1>6. /\ g \in SavedFrame /\ g.of = q.msg /\ g.state = "CREATED" /\ g.action = "NONE"
  BY <1>1, CreatedType DEF Created
<1>7. TypeOK
  BY DEF IndInv
<1> HIDE DEF p, g
<1>8. Facts(g) = {}
  BY <1>6 DEF Facts, SuccessStates
<1>9. was' = [was EXCEPT ![f] = @ \cup Facts(g)] /\ frames' = [frames EXCEPT ![f] = g]
  BY <1>2, <1>3, <1>8 DEF IndInv, TypeOK, g
<1>10. ASSUME SerialFor(q) PROVE SerialFor(p)'
  <2>1. was[f] = {}
    BY <1>2, <1>10 DEF SerialFor, FramesSettled
  <2>2. Settled(g, was[f] \cup Facts(g))
    BY <1>6, <1>8, <2>1 DEF Settled, SuccessStates
  <2>3. (behind \cup At(q) \cup {f}) \cap FrameId \subseteq behind' \cup At(p)
    BY <1>1, <1>3, <1>5 DEF At
  <2>4. \A m \in Message : Marking(q, m) => Marking(p, m)
    BY <1>1, <1>5 DEF Marking
  <2>5. FramesSettled' /\ OneWaits' /\ InboxFits(p)'
    BY <1>2, <1>3, <1>6, <1>7, <1>9, <1>10, <2>2, <2>3, <2>4, FrameChanges DEF Undisturbed
  <2>6. q.via = "process" /\ inbox[q.msg].status = "PROCESSING" /\ MayMake(q)
        /\ q.next # "create"
    BY <1>1, <1>10 DEF SerialFor, AloneFit
  <2>7. frames'[f] = g
    BY <1>7, <1>9 DEF TypeOK
  <2>8. WaitsFor(q.msg)' = WaitsFor(q.msg)
    BY <1>2, <1>6, <1>7, <1>9 DEF WaitsFor, MadeFor, TypeOK
  <2>9. MayMake(p)'
    BY <1>1, <1>3, <1>5, <2>6, <2>8 DEF MayMake, Undisturbed
  <2>10. AloneFit(p)'
    BY <1>3, <1>5, <1>6, <2>6, <2>7, <2>9 DEF AloneFit
  <2> QED
    BY <2>5, <2>10 DEF SerialFor
<1> QED
  BY <1>1, <1>3, <1>4, <1>7, <1>10, GoesOnSerial

LEMMA RunSerial ==
    ASSUME IndInv, SerialInv, UNCHANGED <<guarded, raised>>, NEW w \in Window, Run(w) PROVE SerialInv'
<1> PICK q : q = window[w]
  OBVIOUS
<1> PICK f : f = q.frame
  OBVIOUS
<1> DEFINE p == [q EXCEPT !.pc = "sync"]
<1>1. /\ q \in Process /\ Fit(frames, was, q) /\ q.pc = "run" /\ ~IsIdle(w)
      /\ q.msg \in Message
  BY DEF IndInv, TypeOK, Run, IsIdle, Process
<1>2. f \in FrameId /\ frames[f] # NoFrame /\ frames[f].of = q.msg /\ inbox # NoInbox
  BY <1>1 DEF Fit, Process, MadeFor, IndInv, SeededFirst
<1>3. PICK o \in Outcomes :
        frames' = [frames EXCEPT ![f] = [@ EXCEPT !.state = o.state, !.action = o.action]]
  BY DEF Run
<1>4. window' = [window EXCEPT ![w] = p]
      /\ UNCHANGED <<inbox, temp, was, behind, overlaps, resets, crashes>>
  BY DEF Run
<1> DEFINE g == [frames[f] EXCEPT !.state = o.state, !.action = o.action]
<1>5. frames[f] \in SavedFrame /\ TypeOK
  BY <1>2 DEF IndInv, TypeOK
<1>6. /\ o.state \in {"WAITING_FOR_EXECUTE", "FAILED_VALIDATION", "FAILED_EXECUTION"}
      /\ o.action \in {"PENDING_APPROVAL", "NONE"}
  BY DEF Outcomes
<1>7. /\ g \in SavedFrame /\ g.of = frames[f].of
      /\ g.state = o.state /\ g.action = o.action
  <2>1. o.state \in TASKFRAME_STATES /\ o.action \in ACTION_VALUES
    BY <1>6 DEF TASKFRAME_STATES, ACTION_VALUES, PENDING_ACTION_STATUSES
  <2> QED
    BY <1>5, <2>1 DEF SavedFrame
<1> HIDE DEF g
<1>8. Facts(g) = {}
  BY <1>6, <1>7 DEF Facts, SuccessStates
<1>9. was' = [was EXCEPT ![f] = @ \cup Facts(g)] /\ frames' = [frames EXCEPT ![f] = g]
  BY <1>2, <1>3, <1>4, <1>8 DEF IndInv, TypeOK, g
<1>10. /\ p.pc = "sync" /\ p.via = q.via /\ p.frame = f /\ p.next = q.next /\ p.msg = q.msg
  BY <1>1 DEF Process
<1> HIDE DEF p
<1>11. ASSUME SerialFor(q) PROVE SerialFor(p)'
  <2>1. /\ q.via = "process" /\ inbox[q.msg].status = "PROCESSING" /\ q.next # "create"
        /\ frames[f].state = "CREATED" /\ MayMake(q) /\ Settled(frames[f], was[f])
    BY <1>1, <1>2, <1>11 DEF SerialFor, AloneFit, FramesSettled
  <2>2. Undisturbed /\ q.msg \notin guarded => WaitsFor(q.msg) = {}
    BY <1>1, <2>1 DEF MayMake
  <2>3. Settled(g, was[f] \cup Facts(g))
    BY <1>6, <1>7, <1>8, <2>1 DEF Settled, SuccessStates
  <2>4. (behind \cup At(q) \cup {f}) \cap FrameId \subseteq behind' \cup At(p)
    BY <1>1, <1>4, <1>10 DEF At
  <2>5. \A m \in Message : Marking(q, m) => Marking(p, m)
    BY <1>1, <1>10 DEF Marking
  <2>6. inbox[g.of].status \notin Processable
    BY <1>2, <1>7, <2>1 DEF Processable
  <2>7. FramesSettled' /\ OneWaits' /\ InboxFits(p)'
    BY <1>2, <1>4, <1>5, <1>7, <1>9, <1>11, <2>2, <2>3, <2>4, <2>5, <2>6, FrameChanges
     DEF Undisturbed
  <2>8. frames'[f] = g
    BY <1>2, <1>5, <1>9 DEF TypeOK
  <2>9. Undisturbed /\ q.msg \notin guarded => WaitsFor(q.msg)' \subseteq {f}
    BY <1>2, <1>5, <1>9, <2>2 DEF WaitsFor, MadeFor, TypeOK
  <2>10. MayMake(p)'
    BY <1>4, <1>10, <2>1, <2>9 DEF MayMake, Undisturbed
  <2>11. AloneFit(p)'
    BY <1>7, <1>10, <2>1, <2>8, <2>10 DEF AloneFit
  <2> QED
    BY <2>7, <2>11 DEF SerialFor
<1> QED
  BY <1>1, <1>4, <1>5, <1>11, GoesOnSerial

\* A run that raises.
LEMMA RunRaisesSerial ==
    ASSUME IndInv, SerialInv, UNCHANGED guarded, NEW w \in Window, RunRaises(w)
    PROVE  SerialInv'
<1> PICK q : q = window[w]
  OBVIOUS
<1> PICK f : f = q.frame
  OBVIOUS
<1> DEFINE p == Failing(q, Unlinked)
<1>1. /\ q \in Process /\ Fit(frames, was, q) /\ q.pc = "run" /\ ~IsIdle(w)
      /\ q.msg \in Message
  BY DEF IndInv, TypeOK, RunRaises, IsIdle, Process
<1>2. f \in FrameId /\ frames[f] # NoFrame /\ frames[f].of = q.msg
  BY <1>1 DEF Fit, Process, MadeFor
<1>3. PICK g \in SavedFrame :
        /\ frames' = [frames EXCEPT ![f] = g] /\ g.of = frames[f].of
        /\ g.state \in Interrupting /\ g.action \in {"NONE", "PENDING_APPROVAL"}
  BY <1>1, <1>2, RunRaisesTo DEF IndInv
<1>4. window' = [window EXCEPT ![w] = p]
      /\ UNCHANGED <<inbox, temp, was, behind, overlaps, resets, crashes>>
  BY DEF RunRaises
<1>5. TypeOK /\ raised' # 0
  BY DEF IndInv, TypeOK, RunRaises, Accident
<1>6. ~Undisturbed'
  BY <1>5 DEF Undisturbed
<1>7. Facts(g) = {}
  BY <1>3 DEF Facts, SuccessStates, Interrupting
<1>8. was' = [was EXCEPT ![f] = @ \cup Facts(g)]
  BY <1>2, <1>4, <1>7 DEF IndInv, TypeOK
<1>9. /\ p.pc = "load" /\ p.via = "failure" /\ p.frame = f /\ p.next = "idle"
      /\ p.msg = q.msg /\ p.entry = [status |-> "FAILED", link |-> Unlinked]
  BY <1>1 DEF Failing, Updating, Process
<1> HIDE DEF p
<1>10. ASSUME SerialFor(q) PROVE SerialFor(p)'
  <2>1. frames[f].state = "CREATED" /\ Settled(frames[f], was[f])
    BY <1>1, <1>2, <1>10 DEF SerialFor, AloneFit, FramesSettled
  <2>2. Settled(g, was[f] \cup Facts(g))
    BY <1>3, <1>7, <2>1 DEF Settled, SuccessStates, Interrupting
  <2>3. (behind \cup At(q) \cup {f}) \cap FrameId \subseteq behind' \cup At(p)
    BY <1>1, <1>4, <1>9 DEF At
  <2>4. \A m \in Message : Marking(q, m) => Marking(p, m)
    BY <1>1, <1>9 DEF Marking
  <2>5. FramesSettled' /\ OneWaits' /\ InboxFits(p)'
    BY <1>2, <1>3, <1>4, <1>5, <1>6, <1>8, <1>10, <2>2, <2>3, <2>4, FrameChanges
  <2>6. MayMake(p)'
    BY <1>6 DEF MayMake
  <2>7. Says(p.entry, behind)'
    BY <1>9 DEF Says, FrameId, Unlinked
  <2>8. AloneFit(p)'
    BY <1>9, <2>6, <2>7 DEF AloneFit
  <2> QED
    BY <2>5, <2>8 DEF SerialFor
<1> QED
  BY <1>1, <1>4, <1>5, <1>10, GoesOnSerial

\* The message is called failed although its frame may have gone well.
LEMMA ReportRaisesSerial ==
    ASSUME IndInv, SerialInv, UNCHANGED guarded, NEW w \in Window, ReportRaises(w)
    PROVE  SerialInv'
<1> PICK q : q = window[w]
  OBVIOUS
<1> DEFINE p == Failing(q, q.frame)
<1>1. /\ window' = [window EXCEPT ![w] = p]
      /\ behind' = Behind(behind \cup ({q.frame} \ {Unlinked}))
      /\ UNCHANGED <<inbox, frames, was, overlaps, resets, crashes>>
  BY DEF ReportRaises
<1>2. /\ q \in Process /\ q.pc = "clean" /\ q.next = "idle" /\ ~IsIdle(w)
      /\ TypeOK /\ raised' # 0
  BY DEF IndInv, TypeOK, ReportRaises, Accident, IsIdle
<1>3. ~Undisturbed'
  BY <1>2 DEF Undisturbed
<1>4. /\ p.pc = "load" /\ p.via = "failure" /\ p.frame = q.frame /\ p.next = "idle"
      /\ p.msg = q.msg /\ p.entry = [status |-> "FAILED", link |-> q.frame]
  BY <1>2 DEF Failing, Updating, Process
<1> HIDE DEF p
<1>5. ASSUME overlaps = 0, SerialFor(q) PROVE SerialFor(p)'
  <2>1. behind' = behind \cup ({q.frame} \ {Unlinked})
    BY <1>1, <1>5 DEF Behind
  <2>2. Says(p.entry, behind)'
    BY <1>4, <2>1 DEF Says, FrameId, Unlinked
  <2>3. MayMake(p)'
    BY <1>3 DEF MayMake
  <2>4. AloneFit(p)'
    BY <1>4, <2>2, <2>3 DEF AloneFit
  <2>5. (behind \cup At(q)) \cap FrameId \subseteq behind' \cup At(p)
    BY <1>2, <2>1 DEF At
  <2>6. \A m \in Message : Marking(q, m) => Marking(p, m)
    BY <1>2 DEF Marking
  <2>7. InboxFits(p)'
    BY <1>1, <1>3, <1>5, <2>5, <2>6, InboxRests DEF SerialFor
  <2> QED
    BY <1>1, <1>3, <1>5, <2>4, <2>7, FramesRest DEF SerialFor
<1> QED
  BY <1>1, <1>2, <1>5, GoesOnSerial

LEMMA SaveSerial ==
    ASSUME IndInv, SerialInv, UNCHANGED <<guarded, raised>>, NEW w \in Window, Save(w) PROVE SerialInv'
<1> PICK q : q = window[w]
  OBVIOUS
<1> PICK f : f = q.frame
  OBVIOUS
<1> PICK g : g = q.held
  OBVIOUS
<1> PICK p : p = IF q.via = "approval" THEN [q EXCEPT !.pc = "sync", !.held = Idle.held]
                                       ELSE Idle
  OBVIOUS
<1>1. /\ q \in Process /\ Fit(frames, was, q) /\ q.pc = "save" /\ ~IsIdle(w)
      /\ q.msg \in Message /\ TypeOK
  BY DEF IndInv, TypeOK, Save, IsIdle, Process
<1>2. /\ f \in FrameId /\ frames[f] # NoFrame /\ frames[f].of = q.msg
      /\ g \in SavedFrame /\ g.of = q.msg
  BY <1>1 DEF Fit, Process, MadeFor
<1>3. /\ window' = [window EXCEPT ![w] = p] /\ UNCHANGED <<inbox, temp, overlaps, resets, crashes>>
      /\ behind' = IF q.via = "approval" THEN behind ELSE Behind(behind \cup {f})
  BY <1>1 DEF Save, TypeOK
<1>4. ASSUME Alone(w) /\ overlaps = 0 /\ SerialFor(q) PROVE SerialFor(p)'
  <2>1. frames' = [frames EXCEPT ![f] = g] /\ was' = [was EXCEPT ![f] = @ \cup Facts(g)]
    BY <1>4 DEF Save, Alone, IsIdle
  <2>2. /\ q.via \in {"approval", "other"} /\ Settled(g, was[f]) /\ q.next # "create"
        /\ g.state = "WAITING_FOR_EXECUTE" => frames[f].state = "WAITING_FOR_EXECUTE"
    BY <1>1, <1>4 DEF SerialFor, AloneFit
  <2>3. Settled(g, was[f] \cup Facts(g))
    BY <2>2 DEF Settled, Facts, SuccessStates
  <2>4. ASSUME q.via = "approval"
        PROVE  AloneFit(p)' /\ (behind \cup At(q) \cup {f}) \cap FrameId \subseteq behind' \cup At(p)
    <3>1. p.pc = "sync" /\ p.via = "approval" /\ p.frame = f /\ p.next = q.next
      BY <1>1, <2>4 DEF Process
    <3>2. AloneFit(p)'
      BY <2>2, <3>1 DEF AloneFit, MayMake
    <3>3. (behind \cup At(q) \cup {f}) \cap FrameId \subseteq behind' \cup At(p)
      BY <1>1, <1>3, <2>4, <3>1 DEF At
    <3> QED
      BY <3>2, <3>3
  <2>5. ASSUME q.via = "other"
        PROVE  AloneFit(p)' /\ (behind \cup At(q) \cup {f}) \cap FrameId \subseteq behind' \cup At(p)
    <3>1. p = Idle
      BY <2>5
    <3>2. AloneFit(p)'
      BY <3>1, IdleType, IdleReliesOn
    <3>3. (behind \cup At(q) \cup {f}) \cap FrameId \subseteq behind' \cup At(p)
      BY <1>1, <1>3, <1>4, <2>5 DEF At, Behind
    <3> QED
      BY <3>2, <3>3
  <2>6. AloneFit(p)' /\ (behind \cup At(q) \cup {f}) \cap FrameId \subseteq behind' \cup At(p)
    BY <2>2, <2>4, <2>5
  <2>7. g.state = "WAITING_FOR_EXECUTE" => f \in WaitsFor(g.of)
    BY <1>2, <2>2 DEF WaitsFor, MadeFor
  <2>8. g.state = "WAITING_FOR_EXECUTE" /\ Undisturbed /\ g.of \notin guarded =>
            WaitsFor(g.of) \subseteq {f}
    BY <1>1, <1>2, <1>4, <2>7 DEF SerialFor, OneWaits
  <2>9. \A m \in Message : ~Marking(q, m)
    BY <2>2 DEF Marking
  <2>10. FramesSettled' /\ OneWaits' /\ InboxFits(p)'
    BY <1>1, <1>2, <1>3, <1>4, <2>1, <2>3, <2>6, <2>7, <2>8, <2>9, FrameChanges DEF Undisturbed
  <2> QED
    BY <2>6, <2>10 DEF SerialFor
<1> QED
  BY <1>1, <1>3, <1>4, GoesOnSerial

LEMMA SerialInit == Init => SerialInv
<1> SUFFICES ASSUME Init PROVE Serial
  BY DEF SerialInv
<1>1. \A w \in Window : window[w] = Idle
  BY DEF Init
<1>2. \A w \in Window : AloneFit(window[w]) /\ IsIdle(w)
  BY <1>1, IdleType, IdleRelies DEF IsIdle
<1>3. \A m \in Message : WaitsFor(m) = {}
  BY DEF Init, WaitsFor, MadeFor
<1> QED
  BY <1>2, <1>3 DEF Init, Serial

LEMMA SerialNext == IndInv /\ SerialInv /\ [Next]_vars => SerialInv'
<1> SUFFICES ASSUME IndInv, SerialInv, [Next]_vars PROVE SerialInv'
  OBVIOUS
<1>1. CASE UNCHANGED vars
  BY <1>1 DEF vars, SerialInv, Serial, IsIdle, AloneFit, ListFits, ListSays, Says, ListIsFresh,
              MayMake, WaitsFor, MadeFor, Stale, Settled, Marking, Undisturbed
<1>2. ASSUME NEW w \in Window, Operation(w), UNCHANGED <<guarded, raised>> PROVE SerialInv'
  BY <1>2, SeedSerial, ResetSerial, ProcessMessageSerial, ApproveSerial, ApproveAllSerial,
     RejectSerial, ExecuteSerial, ExecuteAloneSerial, RefusedSerial DEF Operation
<1>3. ASSUME NEW w \in Window, Progress(w), UNCHANGED <<guarded, raised>> PROVE SerialInv'
  BY <1>3, LoadSerial, WriteTempSerial, ReplaceSerial, CleanSerial, CreateSerial,
     CreateRaisesSerial, RunSerial, SaveSerial, SyncSerial DEF Progress
<1>4. ASSUME NEW w \in Window, Crash(w), UNCHANGED <<guarded, raised>> PROVE SerialInv'
  BY <1>4, CrashSerial
<1>5. ASSUME NEW w \in Window, RunRaises(w) \/ ReportRaises(w), UNCHANGED guarded
      PROVE  SerialInv'
  BY <1>5, RunRaisesSerial, ReportRaisesSerial
<1> QED
  BY <1>1, <1>2, <1>3, <1>4, <1>5 DEF Next

\* Every list that a file or a window holds, and the status and link a window is
\* about to write, was true of the frames (update_customer_message(),
\* _sync_message_from_frame(), _sync_customer_inbox_from_frame()).
THEOREM InvariantCorrect == Spec => []IndInv
<1> QED
  BY InvInit, InvNext, PTL DEF Spec

\* The types of the inbox, the frames and the windows.
THEOREM TypeCorrect == Spec => []TypeOK
<1>1. IndInv => TypeOK
  BY DEF IndInv
<1> QED
  BY <1>1, InvariantCorrect, PTL

\* customer_messages.json never says of a reply that it was approved, rejected or
\* executed when its frame's file never was, nor links a message to another
\* message's frame, whatever windows overwrite and wherever they crash.
THEOREM InboxCorrect == Spec => []InboxWasTrue
<1>1. IndInv => InboxWasTrue
  BY DEF IndInv
<1> QED
  BY <1>1, InvariantCorrect, PTL

\* Pairwise equal elements: at most one.
LEMMA AtMostOne ==
    ASSUME NEW S, NEW T, S \subseteq T, \A f, g \in T : f = g
    PROVE  Cardinality(S) <= 1
<1>1. CASE S = {}
  BY <1>1, FS_EmptySet
<1>2. CASE S # {}
  <2>1. PICK f : f \in S
    BY <1>2
  <2>2. S = {f}
    BY <2>1
  <2> QED
    BY <2>2, FS_Singleton
<1> QED
  BY <1>1, <1>2

LEMMA SerialMeans == TypeOK /\ SerialInv => OneReplyWhenSerial /\ AgreesWithFrame
<1> SUFFICES ASSUME TypeOK, SerialInv PROVE OneReplyWhenSerial /\ AgreesWithFrame
  OBVIOUS
<1>1. OneReplyWhenSerial
  <2> SUFFICES ASSUME overlaps = 0, Undisturbed, NEW m \in Message \ guarded
               PROVE  Cardinality(InFlightFor(m)) <= 1
    BY DEF OneReplyWhenSerial
  <2>1. \A f, g \in WaitsFor(m) : f = g
    BY DEF SerialInv, Serial
  <2>2. InFlightFor(m) \subseteq WaitsFor(m)
    BY DEF InFlightFor, WaitsFor
  <2> QED
    BY <2>1, <2>2, AtMostOne
<1>2. AgreesWithFrame
  <2> SUFFICES ASSUME overlaps = 0, inbox # NoInbox, \A w \in Window : IsIdle(w),
                      NEW m \in Message \ guarded
               PROVE  LET e == inbox[m] IN
                      IF e.status = "PROCESSING" THEN crashes > 0
                      ELSE e.link \in FrameId \ behind => e.status \in StatusesFor(frames[e.link])
    BY DEF AgreesWithFrame
  <2>1. Serial /\ Stale = behind
    BY DEF SerialInv, Stale, IsIdle
  <2>2. CASE inbox[m].status = "PROCESSING"
    <3>1. crashes # 0
      BY <2>1, <2>2 DEF Serial, Marking, IsIdle
    <3> QED
      BY <2>2, <3>1 DEF TypeOK
  <2>3. CASE inbox[m].status # "PROCESSING"
    BY <2>1, <2>3 DEF Serial, ListSays, Says
  <2> QED
    BY <2>2, <2>3
<1> QED
  BY <1>1, <1>2

\* With one window at work, what the inbox says of a message is what its frame
\* is, but for the frame that is being worked on and those behind; a message that
\* may be processed has no reply waiting, and no frame that was decided changes
\* (process_customer_message(), _sync_customer_inbox_from_frame()).
THEOREM SerialCorrect == Spec => []SerialInv
<1> QED
  BY InvariantCorrect, SerialInit, SerialNext, PTL DEF Spec

\* Windows that work one after the other never stage a second reply to a message
\* while the first can still be sent, until the inbox is reset.
THEOREM OneReplyCorrect == Spec => []OneReplyWhenSerial
<1>1. TypeOK /\ SerialInv => OneReplyWhenSerial
  BY SerialMeans
<1> QED
  BY <1>1, TypeCorrect, SerialCorrect, PTL

\* At rest a message says what its frame is, unless the frame was last saved by
\* somebody who does not look at the inbox, and only a crash leaves it PROCESSING.
THEOREM AgreesWithFrameCorrect == Spec => []AgreesWithFrame
<1>1. TypeOK /\ SerialInv => AgreesWithFrame
  BY SerialMeans
<1> QED
  BY <1>1, TypeCorrect, SerialCorrect, PTL

=============================================================================
