--------------------------- MODULE JobQueueProofs ---------------------------
(* Proofs about JobQueue. *)
EXTENDS JobQueue, FiniteSetTheorems, TLAPS

CallSteps == {"reserve", "find", "send", "withdraw", "returned", "threw", "gone"}
States == {"unsent", "queued", "active"} \cup Terminal
TrySteps == AtWork \cup {"none", "over"}

\* TypeOK without its bounds.
RowType == [status : Statuses \cup {"NONE"}, attempts : Nat]
JobType == [state : States, tries : Nat, extra : Nat]

CallShape ==
  /\ call \in [Callers -> [at : Nat, pc : CallSteps]]
  /\ \A c \in Callers : call[c].at \in 1 .. Items[c]
AnswerShape == answer \in [Ids -> Ids \cup {NoAnswer}]
RowShape == row \in [Ids -> RowType]
JobShape == job \in [Ids -> JobType]
TryShape == try \in [Ids -> [1 .. MaxTries -> TrySteps]]
ControlShape == control \in [Controls -> {"idle", "cancel", "retry", "done"}]
MarksShape == marks \in [Ids -> SUBSET Marks]
FaultsShape == faults \in 0 .. MaxFaults

Shape ==
  /\ CallShape /\ AnswerShape /\ RowShape /\ JobShape
  /\ TryShape /\ ControlShape /\ MarksShape /\ FaultsShape

\* The call of j has not reached it, or is about to reserve its row.
Ahead(j) ==
  \/ call[j[1]].at < j[2]
  \/ call[j[1]].at = j[2] /\ call[j[1]].pc = "reserve"

\* The call of j is at j, at one of the steps.
At(j, steps) == call[j[1]].at = j[2] /\ call[j[1]].pc \in steps

\* What the step of a publisher says about the job it is at.
PublisherInv ==
  \A j \in Ids :
    /\ Ahead(j) => ~HasRow(j) /\ job[j].state = "unsent" /\ answer[j] = NoAnswer
    /\ At(j, {"find", "send"}) => job[j].state = "unsent"
    /\ At(j, {"find", "send", "withdraw", "threw", "gone"}) => answer[j] = NoAnswer
    /\ At(j, {"send", "withdraw"}) => HasRow(j)

\* The unique index.
KeysUnique ==
  \A j, l \in Ids : HasRow(j) /\ HasRow(l) /\ KeyOf[j] = KeyOf[l] => j = l

Stands(l) == HasRow(l) \/ Withdrawn(l)

AnswersHaveRows ==
  \A j \in Ids : answer[j] # NoAnswer =>
    KeyOf[answer[j]] = KeyOf[j] /\ Stands(answer[j])

PublishInv == Shape /\ PublisherInv /\ KeysUnique /\ AnswersHaveRows
-----------------------------------------------------------------------------
LEMMA IdParts ==
  ASSUME NEW j \in Ids
  PROVE  j[1] \in Callers /\ j[2] \in 1 .. Items[j[1]] /\ j = <<j[1], j[2]>>
BY DEF Ids

LEMMA CurrentId ==
  ASSUME CallShape, NEW c \in Callers
  PROVE  /\ Current(c) \in Ids
         /\ Current(c)[1] = c /\ Current(c)[2] = call[c].at
BY DEF CallShape, Current, Ids

LEMMA IsCurrentId ==
  ASSUME CallShape, NEW c \in Callers, NEW j \in Ids
  PROVE  j = Current(c) <=> j[1] = c /\ j[2] = call[c].at
BY IdParts, CurrentId DEF Current

LEMMA NoAnswerIsNoId == NoAnswer \notin Ids
BY IdParts DEF NoAnswer

\* The step of a publisher at one payload.
LEMMA GoesCall ==
  ASSUME CallShape, NEW c \in Callers, NEW pc \in CallSteps, Goes(c, pc)
  PROVE  /\ CallShape'
         /\ call'[c].at = call[c].at /\ call'[c].pc = pc
         /\ \A d \in Callers : d # c => call'[d] = call[d]
<1>1. call' \in [Callers -> [at : Nat, pc : CallSteps]]
  BY DEF CallShape, Goes
<1>2. call'[c].at = call[c].at /\ call'[c].pc = pc
  BY DEF CallShape, Goes
<1>3. \A d \in Callers : d # c => call'[d] = call[d]
  BY DEF CallShape, Goes
<1> QED
  BY <1>1, <1>2, <1>3 DEF CallShape

\* The step of a publisher to its next payload.
LEMMA AnswerCall ==
  ASSUME CallShape, AnswerShape, NEW c \in Callers, NEW l \in Ids, Answer(c, l)
  PROVE  /\ CallShape' /\ AnswerShape'
         /\ answer'[Current(c)] = l
         /\ \A j \in Ids : j # Current(c) => answer'[j] = answer[j]
         /\ \/ call'[c].at = call[c].at + 1 /\ call'[c].pc = "reserve"
            \/ call'[c].at = call[c].at /\ call'[c].pc = "returned"
         /\ \A d \in Callers : d # c => call'[d] = call[d]
<1>0. Current(c) \in Ids
  BY CurrentId
<1>1. /\ AnswerShape'
      /\ answer'[Current(c)] = l
      /\ \A j \in Ids : j # Current(c) => answer'[j] = answer[j]
  BY <1>0 DEF AnswerShape, Answer
<1>2. CASE call[c].at < Items[c]
  <2>1. call' = [call EXCEPT ![c] = [at |-> call[c].at + 1, pc |-> "reserve"]]
    BY <1>2 DEF Answer, CallShape
  <2>2. call[c].at + 1 \in 1 .. Items[c] /\ Items[c] \in Nat
    BY <1>2, JobQueueAssumption DEF CallShape
  <2>3. call' \in [Callers -> [at : Nat, pc : CallSteps]]
    BY <2>1, <2>2 DEF CallShape, CallSteps
  <2>4. \A d \in Callers : call'[d].at \in 1 .. Items[d]
    BY <2>1, <2>2 DEF CallShape
  <2> QED
    BY <1>1, <2>1, <2>3, <2>4 DEF CallShape
<1>3. CASE ~(call[c].at < Items[c])
  <2>1. call' = [call EXCEPT ![c] = [at |-> call[c].at, pc |-> "returned"]]
    BY <1>3 DEF Answer, CallShape
  <2>3. call' \in [Callers -> [at : Nat, pc : CallSteps]]
    BY <2>1 DEF CallShape, CallSteps
  <2>4. \A d \in Callers : call'[d].at \in 1 .. Items[d]
    BY <2>1 DEF CallShape
  <2> QED
    BY <1>1, <2>1, <2>3, <2>4 DEF CallShape
<1> QED
  BY <1>2, <1>3

LEMMA RowUpdate ==
  ASSUME RowShape, NEW j \in Ids, NEW r \in RowType
  PROVE  [row EXCEPT ![j] = r] \in [Ids -> RowType]
BY DEF RowShape

LEMMA RowStatus ==
  ASSUME RowShape, NEW j \in Ids, NEW s \in Statuses
  PROVE  [row EXCEPT ![j].status = s] \in [Ids -> RowType]
BY DEF RowShape, RowType

LEMMA JobState ==
  ASSUME JobShape, NEW j \in Ids, NEW s \in States
  PROVE  [job EXCEPT ![j].state = s] \in [Ids -> JobType]
BY DEF JobShape, JobType

LEMMA JobUpdate ==
  ASSUME JobShape, NEW j \in Ids, NEW r \in JobType
  PROVE  [job EXCEPT ![j] = r] \in [Ids -> JobType]
BY DEF JobShape

LEMMA TryStep ==
  ASSUME TryShape, NEW j \in Ids, NEW t, NEW pc \in TrySteps, TryGoes(j, t, pc)
  PROVE  TryShape'
BY DEF TryShape, TryGoes

LEMMA FaultStep ==
  ASSUME FaultsShape, NEW kind, Fault(kind) \/ NoFault
  PROVE  FaultsShape'
BY JobQueueAssumption DEF FaultsShape, Fault, NoFault

LEMMA MarkStep ==
  ASSUME MarksShape, NEW j \in Ids, NEW m \in Marks, Mark(j, m)
  PROVE  MarksShape'
BY DEF MarksShape, Mark

LEMMA InitPublishInv == Init => PublishInv
<1> SUFFICES ASSUME Init PROVE PublishInv
  OBVIOUS
<1>1. Shape
  BY JobQueueAssumption
     DEF Init, Shape, CallShape, AnswerShape, RowShape, JobShape, TryShape, ControlShape,
         MarksShape, FaultsShape, RowType, JobType, CallSteps, States, TrySteps, NoRow, Unsent
<1>2. PublisherInv
  BY IdParts DEF Init, PublisherInv, HasRow, NoRow, Unsent, At
<1>3. KeysUnique /\ AnswersHaveRows
  BY DEF Init, KeysUnique, AnswersHaveRows, HasRow, NoRow
<1> QED
  BY <1>1, <1>2, <1>3 DEF PublishInv

-----------------------------------------------------------------------------
\* Every step keeps the shape of the state.
LEMMA PublishShape ==
  ASSUME Shape, NEW c \in Callers, Publish(c)
  PROVE  Shape'
<1> USE DEF Shape
<1>0. Current(c) \in Ids
  BY CurrentId
<1>1. TryShape' /\ ControlShape' /\ MarksShape'
  BY DEF Publish, ReserveRow, ReserveFails, Find, FindFails, Send, SendFails, Withdraw,
         CallerDies, queueSide, TryShape, ControlShape, MarksShape
<1>2. FaultsShape'
  BY FaultStep DEF Publish, ReserveRow, ReserveFails, Find, FindFails, Send, SendFails,
         Withdraw, CallerDies
<1>3. RowShape'
  <2>1. [status |-> "QUEUED", attempts |-> 0] \in RowType /\ NoRow \in RowType
    BY DEF RowType, NoRow, Statuses
  <2>2. row' \in [Ids -> RowType]
     \/ UNCHANGED row
    BY <1>0, <2>1, RowUpdate
       DEF Publish, ReserveRow, ReserveFails, Find, FindFails, Send, SendFails, Withdraw,
           CallerDies, Created
  <2> QED
    BY <2>2 DEF RowShape
<1>4. JobShape'
  <2>1. "queued" \in States
    BY DEF States
  <2>2. job' = [job EXCEPT ![Current(c)].state = "queued"] \/ UNCHANGED job
    BY DEF Publish, ReserveRow, ReserveFails, Find, FindFails, Send, SendFails, Withdraw,
           CallerDies, queueSide, Accepted
  <2>3. [job EXCEPT ![Current(c)].state = "queued"] \in [Ids -> JobType]
    BY <1>0, <2>1, JobState
  <2> QED
    BY <2>2, <2>3 DEF JobShape
<1>5. CallShape' /\ AnswerShape'
  <2>1. \/ \E l \in Ids : Answer(c, l)
        \/ UNCHANGED answer /\ \E pc \in CallSteps : Goes(c, pc)
    BY <1>0 DEF Publish, ReserveRow, ReserveFails, Find, FindFails, Send, SendFails, Withdraw,
           CallerDies, Throws, CallSteps
  <2> QED
    BY <2>1, AnswerCall, GoesCall DEF AnswerShape
<1> QED
  BY <1>1, <1>2, <1>3, <1>4, <1>5

LEMMA WorkShape ==
  ASSUME Shape, NEW j \in Ids, Work(j)
  PROVE  Shape'
<1> USE DEF Shape
<1>0. PICK t \in 1 .. MaxTries \cup {job[j].tries + 1} :
        \/ PickUp(j) \/ Reap(j) \/ Expire(j) \/ Start(j, t) \/ TaskEnds(j, t)
        \/ Finish(j, t) \/ UpdateFails(j, t) \/ Report(j, t) \/ Crash(j, t)
  BY DEF Work, Handle
<1>1. CallShape' /\ AnswerShape' /\ ControlShape'
  BY <1>0 DEF PickUp, Reap, Expire, Start, TaskEnds, Finish, UpdateFails, Report, Crash,
              publishers, CallShape, AnswerShape, ControlShape
<1>2. FaultsShape'
  BY <1>0, FaultStep
     DEF PickUp, Reap, Expire, Start, TaskEnds, Finish, UpdateFails, Report, Crash
<1>3. MarksShape'
  BY <1>0, MarkStep
     DEF PickUp, Reap, Expire, Start, TaskEnds, Finish, UpdateFails, Report, Crash,
         Marks, MarksShape
<1>4. RowShape'
  <2>1. CASE Start(j, t)
    <3>1. Started(j) \in RowType
      BY DEF Started, RowType, RowShape, Statuses
    <3> QED
      BY <2>1, <3>1, RowUpdate DEF Start, RowShape
  <2>2. CASE Finish(j, t)
    <3>1. Ending(j, t) \in Statuses
      BY DEF Ending, Statuses
    <3> QED
      BY <2>2, <3>1, RowStatus DEF Finish, RowShape
  <2>3. CASE ~Start(j, t) /\ ~Finish(j, t)
    BY <1>0, <2>3 DEF PickUp, Reap, Expire, TaskEnds, UpdateFails, Report, Crash, RowShape
  <2> QED
    BY <2>1, <2>2, <2>3
<1>5. JobShape'
  <2>1. AfterFailure(j) \in States /\ "active" \in States /\ "completed" \in States
    BY DEF AfterFailure, States, Terminal
  <2> DEFINE r == [state |-> "active", tries |-> job[j].tries + 1, extra |-> job[j].extra]
  <2>2. \/ job' = [job EXCEPT ![j] = r]
        \/ job' = [job EXCEPT ![j].state = AfterFailure(j)]
        \/ job' = [job EXCEPT ![j].state = "completed"]
        \/ UNCHANGED job
    BY <1>0 DEF PickUp, Reap, Expire, Start, TaskEnds, Finish, UpdateFails, Report, Crash,
                TryFailed
  <2>4. r \in JobType
    BY <2>1 DEF JobShape, JobType
  <2>3. /\ [job EXCEPT ![j] = r] \in [Ids -> JobType]
        /\ [job EXCEPT ![j].state = AfterFailure(j)] \in [Ids -> JobType]
        /\ [job EXCEPT ![j].state = "completed"] \in [Ids -> JobType]
    BY <2>1, <2>4, JobState, JobUpdate
  <2> QED
    BY <2>2, <2>3 DEF JobShape
<1>6. TryShape'
  <2>1. \/ \E pc \in TrySteps : TryGoes(j, t, pc)
        \/ TryGoes(j, job[j].tries + 1, "picked") /\ "picked" \in TrySteps
        \/ UNCHANGED try
    BY <1>0 DEF PickUp, Reap, Expire, Start, TaskEnds, Finish, UpdateFails, Report, Crash,
                TrySteps, AtWork
  <2> QED
    BY <2>1, TryStep DEF TryShape
<1> QED
  BY <1>1, <1>2, <1>3, <1>4, <1>5, <1>6

LEMMA OperateShape ==
  ASSUME Shape, NEW x \in Controls, Operate(x)
  PROVE  Shape'
<1> USE DEF Shape, Operate
<1>0. Subject[x] \in Ids
  BY JobQueueAssumption
<1>1. CallShape' /\ AnswerShape' /\ TryShape'
  BY DEF BossCancel, BossRetry, ControlRow, ControlDies, Asks, others,
         CallShape, AnswerShape, TryShape
<1>2. FaultsShape'
  BY FaultStep DEF BossCancel, BossRetry, ControlRow, ControlDies, Asks
<1>3. MarksShape'
  BY <1>0, MarkStep
     DEF BossCancel, BossRetry, ControlRow, ControlDies, Asks, Marks, MarksShape
<1>4. ControlShape'
  BY DEF BossCancel, BossRetry, ControlRow, ControlDies, Asks, ControlShape
<1>5. RowShape'
  <2>1. \/ \E s \in Statuses : row' = [row EXCEPT ![Subject[x]].status = s]
        \/ UNCHANGED row
    BY DEF BossCancel, BossRetry, ControlRow, ControlDies, Asks, Statuses
  <2>2. \A s \in Statuses : [row EXCEPT ![Subject[x]].status = s] \in [Ids -> RowType]
    BY <1>0, RowStatus
  <2> QED
    BY <2>1, <2>2 DEF RowShape
<1>6. JobShape'
  <2>1. CASE BossCancel(x)
    <3>1. PICK s : job' = [job EXCEPT ![Subject[x]].state = s] /\ s = Cancelled(job[Subject[x]].state)
      BY <1>0, <2>1 DEF BossCancel, JobShape, JobType
    <3>2. s \in States
      BY <1>0, <3>1 DEF Cancelled, States, Terminal, JobShape, JobType
    <3> QED
      BY <1>0, <3>1, <3>2, JobState DEF JobShape
  <2>2. CASE BossRetry(x)
    <3> DEFINE old == job[Subject[x]]
               r == [state |-> "queued", tries |-> old.tries, extra |-> old.extra + 1]
    <3>1. r \in JobType
      BY <1>0 DEF States, JobShape, JobType
    <3>2. [job EXCEPT ![Subject[x]] = r] \in [Ids -> JobType]
      BY <1>0, <3>1, JobUpdate
    <3>3. job' = [job EXCEPT ![Subject[x]] = r] \/ UNCHANGED job
      BY <1>0, <2>2 DEF BossRetry, JobShape
    <3> QED
      BY <3>2, <3>3 DEF JobShape
  <2>3. CASE ControlRow(x) \/ ControlDies(x)
    BY <2>3 DEF ControlRow, ControlDies, JobShape
  <2> QED
    BY <2>1, <2>2, <2>3
<1> QED
  BY <1>1, <1>2, <1>3, <1>4, <1>5, <1>6

LEMMA ShapeStep == Shape /\ [Next]_vars => Shape'
<1> SUFFICES ASSUME Shape, [Next]_vars PROVE Shape'
  OBVIOUS
<1>1. CASE UNCHANGED vars
  BY <1>1 DEF Shape, CallShape, AnswerShape, RowShape, JobShape, TryShape, ControlShape,
              MarksShape, FaultsShape, vars
<1>2. CASE \E c \in Callers : Publish(c)
  BY <1>2, PublishShape
<1>3. CASE \E j \in Ids : Work(j)
  BY <1>3, WorkShape
<1>4. CASE \E x \in Controls : Operate(x)
  BY <1>4, OperateShape
<1> QED
  BY <1>1, <1>2, <1>3, <1>4 DEF Next

\* A step of a publisher that stays at its payload and touches no row.
LEMMA GoesInv ==
  ASSUME PublishInv, NEW c \in Callers, NEW pc \in CallSteps, Goes(c, pc),
         UNCHANGED <<answer, row>>, Shape',
         \A j \in Ids : j # Current(c) => job'[j] = job[j],
         call[c].pc # "reserve" \/ pc \in {"find", "gone"},
         pc # "reserve",
         pc \in {"find", "send"} => job'[Current(c)].state = "unsent",
         pc \in {"find", "send", "withdraw", "threw", "gone"} => answer[Current(c)] = NoAnswer,
         pc \in {"send", "withdraw"} => HasRow(Current(c)),
         call[c].pc = "withdraw" => pc \in {"threw", "gone"},
         call[c].pc \notin {"threw", "gone"}
  PROVE  PublishInv'
<1> USE DEF PublishInv, Shape
<1>1. PublisherInv'
  <2> SUFFICES ASSUME NEW j \in Ids
               PROVE  /\ Ahead(j)' => ~HasRow(j)' /\ job'[j].state = "unsent" /\ answer'[j] = NoAnswer
                      /\ At(j, {"find", "send"})' => job'[j].state = "unsent"
                      /\ At(j, {"find", "send", "withdraw", "threw", "gone"})' => answer'[j] = NoAnswer
                      /\ At(j, {"send", "withdraw"})' => HasRow(j)'
    BY DEF PublisherInv
  <2>1. CASE j = Current(c)
    <3>1. /\ j[1] = c /\ j[2] = call[c].at
          /\ call'[c].at = call[c].at /\ call'[c].pc = pc
          /\ call[c].at \in Nat
      BY <2>1, GoesCall, CurrentId DEF CallShape
    <3>2. ~Ahead(j)'
      BY <3>1 DEF Ahead
    <3>3. \A S : At(j, S)' <=> pc \in S
      BY <3>1 DEF At
    <3> QED
      BY <2>1, <3>2, <3>3 DEF HasRow
  <2>2. CASE j # Current(c)
    <3>1. j[1] \in Callers /\ (j[1] # c \/ j[2] # call[c].at)
      BY <2>2, IsCurrentId, IdParts
    <3>2. \/ call'[j[1]] = call[j[1]]
          \/ call'[j[1]].at = call[j[1]].at /\ call[j[1]].at # j[2]
      BY <3>1, GoesCall
    <3>3. (Ahead(j)' => Ahead(j)) /\ \A S : At(j, S)' => At(j, S)
      BY <3>2 DEF Ahead, At
    <3> QED
      BY <2>2, <3>3 DEF PublisherInv, HasRow
  <2> QED
    BY <2>1, <2>2
<1>2. KeysUnique'
  BY DEF KeysUnique, HasRow
<1>3. AnswersHaveRows'
  <2>1. ASSUME NEW l \in Ids, Stands(l)
        PROVE  Stands(l)'
    <3>1. CASE HasRow(l)
      BY <3>1 DEF Stands, HasRow
    <3>2. CASE ~HasRow(l) /\ l = Current(c)
      BY <2>1, <3>2, GoesCall, CurrentId DEF Stands, Withdrawn, HasRow, PublisherInv, At
    <3>3. CASE ~HasRow(l) /\ l # Current(c)
      <4>1. l[1] \in Callers /\ (l[1] # c \/ l[2] # call[c].at)
        BY <3>3, IsCurrentId, IdParts
      <4>2. call'[l[1]] = call[l[1]]
        BY <2>1, <3>3, <4>1, GoesCall DEF Stands, Withdrawn
      <4> QED
        BY <2>1, <4>2 DEF Stands, Withdrawn, HasRow
    <3> QED
      BY <3>1, <3>2, <3>3
  <2> QED
    BY <2>1, NoAnswerIsNoId DEF AnswersHaveRows, AnswerShape
<1> QED
  BY <1>1, <1>2, <1>3

\* A publisher is answered with the job of a row.
LEMMA AnswerInv ==
  ASSUME PublishInv, NEW c \in Callers, NEW l \in Ids, Answer(c, l),
         UNCHANGED row, Shape',
         \A j \in Ids : j # Current(c) => job'[j] = job[j],
         call[c].pc \in {"find", "send"},
         HasRow(l), KeyOf[l] = KeyOf[Current(c)]
  PROVE  PublishInv'
<1> USE DEF PublishInv, Shape
<1>0. Current(c) \in Ids
  BY CurrentId
<1>1. PublisherInv'
  <2> SUFFICES ASSUME NEW j \in Ids
               PROVE  /\ Ahead(j)' => ~HasRow(j)' /\ job'[j].state = "unsent" /\ answer'[j] = NoAnswer
                      /\ At(j, {"find", "send"})' => job'[j].state = "unsent"
                      /\ At(j, {"find", "send", "withdraw", "threw", "gone"})' => answer'[j] = NoAnswer
                      /\ At(j, {"send", "withdraw"})' => HasRow(j)'
    BY DEF PublisherInv
  <2>0. j[1] \in Callers /\ j[2] \in Nat /\ call[c].at \in Nat
    BY IdParts, JobQueueAssumption DEF CallShape
  <2>1. CASE j[1] # c
    <3>1. call'[j[1]] = call[j[1]] /\ j # Current(c)
      BY <2>0, <2>1, AnswerCall, CurrentId
    <3>2. answer'[j] = answer[j]
      BY <3>1, AnswerCall
    <3>3. (Ahead(j)' <=> Ahead(j)) /\ \A S : At(j, S)' <=> At(j, S)
      BY <3>1 DEF Ahead, At
    <3> QED
      BY <3>1, <3>2, <3>3 DEF PublisherInv, HasRow
  <2>2. CASE j[1] = c /\ j # Current(c)
    <3>1. j[2] # call[c].at
      BY <2>2, IsCurrentId
    <3>2. /\ call'[c].at \in {call[c].at, call[c].at + 1}
          /\ call'[c].pc \in {"reserve", "returned"}
          /\ call'[c].at = call[c].at => call'[c].pc = "returned"
      BY <2>0, AnswerCall
    <3>3. Ahead(j)' => Ahead(j)
      BY <2>0, <2>2, <3>1, <3>2 DEF Ahead
    <3>4. ~At(j, {"find", "send"})' /\ ~At(j, {"find", "send", "withdraw", "threw", "gone"})'
            /\ ~At(j, {"send", "withdraw"})'
      BY <2>2, <3>2 DEF At
    <3>5. answer'[j] = answer[j]
      BY <2>2, AnswerCall
    <3> QED
      BY <2>2, <3>3, <3>4, <3>5 DEF PublisherInv, HasRow
  <2>3. CASE j = Current(c)
    <3>1. j[1] = c /\ j[2] = call[c].at
      BY <2>3, CurrentId
    <3>2. \/ call'[c].at = call[c].at + 1 /\ call'[c].pc = "reserve"
          \/ call'[c].at = call[c].at /\ call'[c].pc = "returned"
      BY <2>0, AnswerCall
    <3>3. ~Ahead(j)'
      BY <2>0, <3>1, <3>2 DEF Ahead
    <3>4. ~At(j, {"find", "send"})' /\ ~At(j, {"find", "send", "withdraw", "threw", "gone"})'
            /\ ~At(j, {"send", "withdraw"})'
      BY <2>0, <3>1, <3>2 DEF At
    <3> QED
      BY <3>3, <3>4
  <2> QED
    BY <2>1, <2>2, <2>3
<1>2. KeysUnique'
  BY DEF KeysUnique, HasRow
<1>3. AnswersHaveRows'
  <2>1. ASSUME NEW i \in Ids, Stands(i)
        PROVE  Stands(i)'
    <3>1. CASE HasRow(i)
      BY <3>1 DEF Stands, HasRow
    <3>2. CASE ~HasRow(i)
      <4>1. i[1] \in Callers /\ i[1] # c
        BY <2>1, <3>2, IdParts, CurrentId DEF Stands, Withdrawn
      <4>2. call'[i[1]] = call[i[1]]
        BY <4>1, AnswerCall
      <4> QED
        BY <2>1, <4>2 DEF Stands, Withdrawn, HasRow
    <3> QED
      BY <3>1, <3>2
  <2>2. Stands(l)'
    BY <2>1 DEF Stands
  <2> SUFFICES ASSUME NEW j \in Ids, answer'[j] # NoAnswer
               PROVE  KeyOf[answer'[j]] = KeyOf[j] /\ Stands(answer[j])'
    BY DEF AnswersHaveRows
  <2>3. CASE j = Current(c)
    BY <2>2, <2>3, AnswerCall
  <2>4. CASE j # Current(c)
    <3>1. answer'[j] = answer[j] /\ answer[j] \in Ids
      BY <2>4, AnswerCall DEF AnswerShape
    <3> QED
      BY <2>1, <3>1 DEF AnswersHaveRows
  <2> QED
    BY <2>3, <2>4
<1> QED
  BY <1>1, <1>2, <1>3

\* A publisher creates its row, and knows or not.
LEMMA CreatedInv ==
  ASSUME PublishInv, NEW c \in Callers, NEW pc \in {"find", "send"}, Goes(c, pc),
         call[c].pc = "reserve", KeyIsFree(KeyOf[Current(c)]), Created(c),
         UNCHANGED <<answer, job>>, Shape'
  PROVE  PublishInv'
<1> USE DEF PublishInv, Shape
<1>0. Current(c) \in Ids /\ pc \in CallSteps /\ call[c].at \in Nat
  BY CurrentId DEF CallSteps, CallShape
<1>1. /\ row'[Current(c)].status # "NONE"
      /\ \A j \in Ids : j # Current(c) => row'[j] = row[j]
  BY <1>0 DEF Created, RowShape, HasRow
<1>2. call'[c].at = call[c].at /\ call'[c].pc = pc
      /\ \A d \in Callers : d # c => call'[d] = call[d]
  BY <1>0, GoesCall
<1>3. PublisherInv'
  <2> SUFFICES ASSUME NEW j \in Ids
               PROVE  /\ Ahead(j)' => ~HasRow(j)' /\ job'[j].state = "unsent" /\ answer'[j] = NoAnswer
                      /\ At(j, {"find", "send"})' => job'[j].state = "unsent"
                      /\ At(j, {"find", "send", "withdraw", "threw", "gone"})' => answer'[j] = NoAnswer
                      /\ At(j, {"send", "withdraw"})' => HasRow(j)'
    BY DEF PublisherInv
  <2>1. CASE j = Current(c)
    <3>1. j[1] = c /\ j[2] = call[c].at
      BY <2>1, CurrentId
    <3>2. Ahead(j) /\ ~Ahead(j)'
      BY <1>0, <1>2, <3>1 DEF Ahead
    <3> QED
      BY <1>1, <2>1, <3>2 DEF PublisherInv, HasRow
  <2>2. CASE j # Current(c)
    <3>1. j[1] \in Callers /\ (j[1] # c \/ j[2] # call[c].at)
      BY <2>2, IsCurrentId, IdParts
    <3>2. \/ call'[j[1]] = call[j[1]]
          \/ call'[j[1]].at = call[j[1]].at /\ call[j[1]].at # j[2]
      BY <1>2, <3>1
    <3>3. (Ahead(j)' => Ahead(j)) /\ \A S : At(j, S)' => At(j, S)
      BY <3>2 DEF Ahead, At
    <3> QED
      BY <1>1, <2>2, <3>3 DEF PublisherInv, HasRow
  <2> QED
    BY <2>1, <2>2
<1>4. KeysUnique'
  <2> SUFFICES ASSUME NEW j \in Ids, NEW l \in Ids,
                      HasRow(j)', HasRow(l)', KeyOf[j] = KeyOf[l], j # l
               PROVE  FALSE
    BY DEF KeysUnique
  <2>1. ASSUME NEW i \in Ids, i # Current(c), HasRow(i)'
        PROVE  HasRow(i) /\ KeyOf[i] # KeyOf[Current(c)]
    BY <1>1, <2>1 DEF KeyIsFree, Holds, HasRow
  <2> QED
    BY <2>1 DEF KeysUnique
<1>5. AnswersHaveRows'
  <2>1. ASSUME NEW l \in Ids, Stands(l)
        PROVE  Stands(l)'
    <3>1. CASE HasRow(l)
      BY <1>1, <3>1 DEF Stands, HasRow
    <3>2. CASE ~HasRow(l)
      <4>1. l[1] \in Callers /\ l[1] # c
        BY <2>1, <3>2, IdParts DEF Stands, Withdrawn
      <4>2. call'[l[1]] = call[l[1]] /\ l # Current(c)
        BY <1>2, <4>1, CurrentId
      <4> QED
        BY <1>1, <2>1, <4>2 DEF Stands, Withdrawn, HasRow
    <3> QED
      BY <3>1, <3>2
  <2> QED
    BY <2>1, NoAnswerIsNoId DEF AnswersHaveRows, AnswerShape
<1> QED
  BY <1>3, <1>4, <1>5

\* A publisher takes its row back.
LEMMA DeletedInv ==
  ASSUME PublishInv, NEW c \in Callers, Goes(c, "threw"), call[c].pc = "withdraw",
         row' = [row EXCEPT ![Current(c)] = NoRow],
         UNCHANGED <<answer, job>>, Shape'
  PROVE  PublishInv'
<1> USE DEF PublishInv, Shape
<1>0. Current(c) \in Ids /\ call[c].at \in Nat
  BY CurrentId DEF CallShape
<1>1. /\ row'[Current(c)].status = "NONE"
      /\ \A j \in Ids : j # Current(c) => row'[j] = row[j]
  BY <1>0 DEF NoRow, RowShape, HasRow
<1>2. call'[c].at = call[c].at /\ call'[c].pc = "threw"
      /\ \A d \in Callers : d # c => call'[d] = call[d]
  BY <1>0, GoesCall DEF CallSteps
<1>3. PublisherInv'
  <2> SUFFICES ASSUME NEW j \in Ids
               PROVE  /\ Ahead(j)' => ~HasRow(j)' /\ job'[j].state = "unsent" /\ answer'[j] = NoAnswer
                      /\ At(j, {"find", "send"})' => job'[j].state = "unsent"
                      /\ At(j, {"find", "send", "withdraw", "threw", "gone"})' => answer'[j] = NoAnswer
                      /\ At(j, {"send", "withdraw"})' => HasRow(j)'
    BY DEF PublisherInv
  <2>1. CASE j = Current(c)
    <3>1. j[1] = c /\ j[2] = call[c].at
      BY <2>1, CurrentId
    <3>2. ~Ahead(j)' /\ At(j, {"find", "send", "withdraw", "threw", "gone"})
          /\ ~At(j, {"find", "send"})' /\ ~At(j, {"send", "withdraw"})'
      BY <1>0, <1>2, <3>1 DEF Ahead, At
    <3> QED
      BY <3>2 DEF PublisherInv
  <2>2. CASE j # Current(c)
    <3>1. j[1] \in Callers /\ (j[1] # c \/ j[2] # call[c].at)
      BY <2>2, IsCurrentId, IdParts
    <3>2. \/ call'[j[1]] = call[j[1]]
          \/ call'[j[1]].at = call[j[1]].at /\ call[j[1]].at # j[2]
      BY <1>2, <3>1
    <3>3. (Ahead(j)' => Ahead(j)) /\ \A S : At(j, S)' => At(j, S)
      BY <3>2 DEF Ahead, At
    <3> QED
      BY <1>1, <2>2, <3>3 DEF PublisherInv, HasRow
  <2> QED
    BY <2>1, <2>2
<1>4. KeysUnique'
  BY <1>1 DEF KeysUnique, HasRow
<1>5. AnswersHaveRows'
  <2>1. ASSUME NEW l \in Ids, Stands(l)
        PROVE  Stands(l)'
    <3>1. CASE l = Current(c)
      BY <1>1, <1>2, <3>1, CurrentId DEF Stands, Withdrawn
    <3>2. CASE l # Current(c) /\ HasRow(l)
      BY <1>1, <3>2 DEF Stands, HasRow
    <3>3. CASE l # Current(c) /\ ~HasRow(l)
      <4>1. l[1] \in Callers /\ l[1] # c
        BY <2>1, <3>3, IdParts, IsCurrentId DEF Stands, Withdrawn
      <4>2. call'[l[1]] = call[l[1]]
        BY <1>2, <4>1
      <4> QED
        BY <1>1, <2>1, <3>3, <4>2 DEF Stands, Withdrawn, HasRow
    <3> QED
      BY <3>1, <3>2, <3>3
  <2> QED
    BY <2>1, NoAnswerIsNoId DEF AnswersHaveRows, AnswerShape
<1> QED
  BY <1>3, <1>4, <1>5

\* Workers and operators neither create nor delete a row, and send no job.
LEMMA QuietWork ==
  ASSUME Shape, NEW i \in Ids, Work(i)
  PROVE  /\ UNCHANGED <<call, answer>>
         /\ \A j \in Ids : /\ HasRow(j)' <=> HasRow(j)
                           /\ job'[j].state = "unsent" <=> job[j].state = "unsent"
<1> USE DEF Shape
<1>0. PICK t \in 1 .. MaxTries \cup {job[i].tries + 1} :
        \/ PickUp(i) \/ Reap(i) \/ Expire(i) \/ Start(i, t) \/ TaskEnds(i, t)
        \/ Finish(i, t) \/ UpdateFails(i, t) \/ Report(i, t) \/ Crash(i, t)
  BY DEF Work, Handle
<1>1. UNCHANGED <<call, answer>>
  BY <1>0 DEF PickUp, Reap, Expire, Start, TaskEnds, Finish, UpdateFails, Report, Crash,
              publishers
<1>2. ASSUME NEW j \in Ids
      PROVE  HasRow(j)' <=> HasRow(j)
  <2>1. CASE Start(i, t)
    BY <2>1 DEF Start, Started, HasRow, RowShape, RowType
  <2>2. CASE Finish(i, t)
    BY <2>2 DEF Finish, Ending, HasRow, RowShape, RowType
  <2>3. CASE ~Start(i, t) /\ ~Finish(i, t)
    BY <1>0, <2>3 DEF PickUp, Reap, Expire, TaskEnds, UpdateFails, Report, Crash, HasRow
  <2> QED
    BY <2>1, <2>2, <2>3
<1>3. ASSUME NEW j \in Ids
      PROVE  job'[j].state = "unsent" <=> job[j].state = "unsent"
  <2>1. CASE PickUp(i)
    BY <2>1 DEF PickUp, JobShape
  <2>2. CASE UNCHANGED job
    BY <2>2
  <2>3. CASE TryFailed(i) /\ job[i].state = "active"
    BY <2>3 DEF TryFailed, AfterFailure, JobShape, JobType
  <2>4. CASE job' = [job EXCEPT ![i].state = "completed"] /\ job[i].state = "active"
    BY <2>4 DEF JobShape, JobType
  <2> QED
    BY <1>0, <2>1, <2>2, <2>3, <2>4
       DEF PickUp, Reap, Expire, Start, TaskEnds, Finish, UpdateFails, Report, Crash, IsCurrent
<1> QED
  BY <1>1, <1>2, <1>3

LEMMA QuietOperate ==
  ASSUME Shape, NEW x \in Controls, Operate(x)
  PROVE  /\ UNCHANGED <<call, answer>>
         /\ \A j \in Ids : /\ HasRow(j)' <=> HasRow(j)
                           /\ job'[j].state = "unsent" <=> job[j].state = "unsent"
<1> USE DEF Shape, Operate
<1>0. Subject[x] \in Ids
  BY JobQueueAssumption
<1>1. UNCHANGED <<call, answer>>
  BY DEF BossCancel, BossRetry, ControlRow, ControlDies, Asks, others
<1>2. ASSUME NEW j \in Ids
      PROVE  HasRow(j)' <=> HasRow(j)
  <2>1. CASE ControlRow(x)
    BY <1>0, <2>1 DEF ControlRow, HasRow, RowShape, RowType
  <2>2. CASE ~ControlRow(x)
    BY <2>2 DEF BossCancel, BossRetry, ControlDies, Asks, HasRow
  <2> QED
    BY <2>1, <2>2
<1>3. ASSUME NEW j \in Ids
      PROVE  job'[j].state = "unsent" <=> job[j].state = "unsent"
  <2>1. CASE BossCancel(x)
    BY <1>0, <2>1 DEF BossCancel, Cancelled, JobShape, JobType
  <2>2. CASE BossRetry(x)
    BY <1>0, <2>2 DEF BossRetry, JobShape, JobType
  <2>3. CASE ControlRow(x) \/ ControlDies(x)
    BY <2>3 DEF ControlRow, ControlDies
  <2> QED
    BY <2>1, <2>2, <2>3
<1> QED
  BY <1>1, <1>2, <1>3

LEMMA QuietInv ==
  ASSUME PublishInv, Shape', UNCHANGED <<call, answer>>,
         \A j \in Ids : /\ HasRow(j)' <=> HasRow(j)
                        /\ job'[j].state = "unsent" <=> job[j].state = "unsent"
  PROVE  PublishInv'
<1> USE DEF PublishInv
<1>1. PublisherInv'
  BY DEF PublisherInv, Ahead, At
<1>2. KeysUnique'
  BY DEF KeysUnique
<1>3. AnswersHaveRows'
  BY NoAnswerIsNoId DEF AnswersHaveRows, Stands, Withdrawn, Shape, AnswerShape
<1> QED
  BY <1>1, <1>2, <1>3

LEMMA PublishStep ==
  ASSUME PublishInv, NEW c \in Callers, Publish(c)
  PROVE  PublishInv'
<1>0. /\ CallShape /\ Shape' /\ Current(c) \in Ids
      /\ Current(c)[1] = c /\ Current(c)[2] = call[c].at
  BY PublishShape, CurrentId DEF PublishInv, Shape
<1>a. /\ call[c].pc = "reserve" => Ahead(Current(c))
      /\ \A S : call[c].pc \in S => At(Current(c), S)
  BY <1>0 DEF Ahead, At
<1>b. /\ call[c].pc = "reserve"
           => job[Current(c)].state = "unsent" /\ answer[Current(c)] = NoAnswer
      /\ call[c].pc \in {"find", "send"} => job[Current(c)].state = "unsent"
      /\ call[c].pc \in {"find", "send", "withdraw", "threw", "gone"}
           => answer[Current(c)] = NoAnswer
      /\ call[c].pc \in {"send", "withdraw"} => HasRow(Current(c))
  BY <1>0, <1>a DEF PublishInv, PublisherInv
<1>1. CASE ReserveRow(c)
  BY <1>0, <1>1, CreatedInv DEF ReserveRow, queueSide
<1>2. CASE ReserveFails(c)
  <2>1. CASE UNCHANGED row
    BY <1>0, <1>2, <1>b, <2>1, GoesInv DEF ReserveFails, queueSide, CallSteps
  <2>2. CASE KeyIsFree(KeyOf[Current(c)]) /\ Created(c)
    BY <1>0, <1>2, <2>2, CreatedInv DEF ReserveFails, queueSide
  <2> QED
    BY <1>2, <2>1, <2>2 DEF ReserveFails
<1>3. CASE Find(c)
  <2>1. PICK l \in Ids :
          /\ Holds(l, KeyOf[Current(c)])
          /\ IF l = Current(c) THEN Goes(c, "send") /\ UNCHANGED answer ELSE Answer(c, l)
    BY <1>3 DEF Find
  <2>2. CASE l = Current(c)
    BY <1>0, <1>3, <1>b, <2>1, <2>2, GoesInv DEF Find, Holds, queueSide, CallSteps
  <2>3. CASE l # Current(c)
    BY <1>0, <1>3, <2>1, <2>3, AnswerInv DEF Find, Holds, queueSide
  <2> QED
    BY <2>2, <2>3
<1>4. CASE FindFails(c)
  BY <1>0, <1>4, <1>b, GoesInv DEF FindFails, Throws, queueSide, CallSteps
<1>c. ASSUME Accepted(Current(c))
      PROVE  \A j \in Ids : j # Current(c) => job'[j] = job[j]
  BY <1>0, <1>c DEF Accepted, PublishInv, Shape, JobShape
<1>5. CASE Send(c)
  BY <1>0, <1>5, <1>b, <1>c, AnswerInv DEF Send
<1>6. CASE SendFails(c)
  <2>1. \A j \in Ids : j # Current(c) => job'[j] = job[j]
    BY <1>6, <1>c DEF SendFails
  <2> QED
    BY <1>0, <1>6, <1>b, <2>1, GoesInv DEF SendFails, CallSteps
<1>7. CASE Withdraw(c)
  <2>1. CASE UNCHANGED row
    BY <1>0, <1>7, <1>b, <2>1, GoesInv DEF Withdraw, Throws, queueSide, CallSteps
  <2>2. CASE row' = [row EXCEPT ![Current(c)] = NoRow]
    BY <1>0, <1>7, <2>2, DeletedInv DEF Withdraw, Throws, queueSide
  <2> QED
    BY <1>7, <2>1, <2>2 DEF Withdraw
<1>8. CASE CallerDies(c)
  BY <1>0, <1>8, <1>b, GoesInv DEF CallerDies, queueSide, CallSteps
<1> QED
  BY <1>1, <1>2, <1>3, <1>4, <1>5, <1>6, <1>7, <1>8 DEF Publish

LEMMA PublishInvStep == PublishInv /\ [Next]_vars => PublishInv'
<1> SUFFICES ASSUME PublishInv, [Next]_vars PROVE PublishInv'
  OBVIOUS
<1>0. Shape /\ Shape'
  BY ShapeStep DEF PublishInv
<1>1. CASE UNCHANGED vars
  BY <1>0, <1>1, QuietInv DEF vars, HasRow
<1>2. CASE \E c \in Callers : Publish(c)
  BY <1>2, PublishStep
<1>3. CASE \E j \in Ids : Work(j)
  BY <1>0, <1>3, QuietWork, QuietInv
<1>4. CASE \E x \in Controls : Operate(x)
  BY <1>0, <1>4, QuietOperate, QuietInv
<1> QED
  BY <1>1, <1>2, <1>3, <1>4 DEF Next

LEMMA PublishInvariant == Spec => []PublishInv
<1> QED
  BY InitPublishInv, PublishInvStep, PTL DEF Spec

LEMMA AnswersFollow == PublishInv => AnswersStand
<1> SUFFICES ASSUME PublishInv,
                    NEW j \in Ids, NEW l, l = answer[j], l # NoAnswer
             PROVE  /\ KeyOf[l] = KeyOf[j] /\ (HasRow(l) \/ Withdrawn(l))
                    /\ \A i \in Ids : answer[i] # NoAnswer /\ KeyOf[i] = KeyOf[j]
                         => answer[i] = l \/ Withdrawn(l) \/ Withdrawn(answer[i])
  BY DEF AnswersStand
<1>1. \A i \in Ids : answer[i] # NoAnswer =>
        answer[i] \in Ids /\ KeyOf[answer[i]] = KeyOf[i]
          /\ (HasRow(answer[i]) \/ Withdrawn(answer[i]))
  BY DEF PublishInv, AnswersHaveRows, Stands, Shape, AnswerShape
<1> QED
  BY <1>1 DEF PublishInv, KeysUnique

LEMMA OneJobFollows == PublishInv => OneJobPerKey
<1> SUFFICES ASSUME PublishInv, NEW j \in Ids, NEW l \in Ids,
                    KeyOf[j] = KeyOf[l], j # l, answer[j] = j, answer[l] = l
             PROVE  FALSE
  BY DEF OneJobPerKey
<1>1. \A i \in Ids : answer[i] = i => HasRow(i)
  <2> SUFFICES ASSUME NEW i \in Ids, answer[i] = i, Withdrawn(i)
               PROVE  FALSE
    BY NoAnswerIsNoId DEF PublishInv, AnswersHaveRows, Stands
  <2>1. At(i, {"find", "send", "withdraw", "threw", "gone"})
    BY DEF Withdrawn, At
  <2> QED
    BY <2>1, NoAnswerIsNoId DEF PublishInv, PublisherInv
<1> QED
  BY <1>1 DEF PublishInv, KeysUnique

\* What a publisher is answered with stands: module JobQueue, AnswersStand.
THEOREM AnswersAreKept == Spec => []AnswersStand
<1> QED
  BY PublishInvariant, AnswersFollow, PTL

\* Two jobs for one key only when an answer of pg-boss was lost.
THEOREM KeysHaveOneJob == Spec => []OneJobPerKey
<1> QED
  BY PublishInvariant, OneJobFollows, PTL

-----------------------------------------------------------------------------
(* Cancelled rows. *)

\* The job will not be tried again, or its row makes no promise of that.
Ended(j) == marks[j] \cap {"early", "retry"} # {} \/ job[j].state \in Terminal

CancelInv ==
  /\ \A j \in Ids : row[j].status = "CANCELLED" => Ended(j)
  /\ \A x \in Controls : control[x] = "cancel" => Ended(Subject[x])

LEMMA EndedPublish ==
  ASSUME PublishInv, NEW c \in Callers, Publish(c), NEW j \in Ids, Ended(j)
  PROVE  Ended(j)'
<1>1. CASE UNCHANGED job
  BY <1>1 DEF Publish, ReserveRow, ReserveFails, Find, FindFails, Send, SendFails, Withdraw,
              CallerDies, queueSide, Ended
<1>2. CASE call[c].pc = "send" /\ Accepted(Current(c)) /\ UNCHANGED marks
  <2>1. Current(c) \in Ids /\ job[Current(c)].state = "unsent"
    BY <1>2, CurrentId DEF PublishInv, PublisherInv, Shape, At
  <2>2. j # Current(c) => job'[j] = job[j]
    BY <1>2, <2>1 DEF Accepted, PublishInv, Shape, JobShape
  <2> QED
    BY <1>2, <2>1, <2>2 DEF Ended, Accepted, Terminal
<1> QED
  BY <1>1, <1>2 DEF Publish, ReserveRow, ReserveFails, Find, FindFails, Send, SendFails,
                    Withdraw, CallerDies, queueSide

\* What a step of a worker does to a job, and to its row.
JobMove(old, new, after) ==
  \/ new = old
  \/ /\ old.state = "queued"
     /\ new = [state |-> "active", tries |-> old.tries + 1, extra |-> old.extra]
  \/ /\ old.state = "active"
     /\ \E s \in {after, "completed"} :
          new = [state |-> s, tries |-> old.tries, extra |-> old.extra]

RowMove(old, new) ==
  new.status = old.status \/ new.status \in {"RUNNING", "COMPLETED", "FAILED"}

LEMMA WorkMoves ==
  ASSUME Shape, NEW i \in Ids, Work(i)
  PROVE  /\ \A j \in Ids : j # i => /\ job'[j] = job[j] /\ row'[j] = row[j]
                                    /\ marks'[j] = marks[j] /\ try'[j] = try[j]
         /\ JobMove(job[i], job'[i], AfterFailure(i))
         /\ RowMove(row[i], row'[i])
         /\ marks[i] \subseteq marks'[i] /\ marks'[i] \subseteq marks[i] \cup {"lost", "late"}
         /\ UNCHANGED control
<1> USE DEF Shape
<1>0. PICK t \in 1 .. MaxTries \cup {job[i].tries + 1} :
        \/ PickUp(i) \/ Reap(i) \/ Expire(i) \/ Start(i, t) \/ TaskEnds(i, t)
        \/ Finish(i, t) \/ UpdateFails(i, t) \/ Report(i, t) \/ Crash(i, t)
  BY DEF Work, Handle
<1>1. UNCHANGED control
  BY <1>0 DEF PickUp, Reap, Expire, Start, TaskEnds, Finish, UpdateFails, Report, Crash,
              publishers
<1>2. /\ \A j \in Ids : j # i => marks'[j] = marks[j]
      /\ marks[i] \subseteq marks'[i] /\ marks'[i] \subseteq marks[i] \cup {"lost", "late"}
  BY <1>0 DEF PickUp, Reap, Expire, Start, TaskEnds, Finish, UpdateFails, Report, Crash,
              Mark, MarksShape
<1>3. \A j \in Ids : j # i => try'[j] = try[j]
  <2>1. UNCHANGED try \/ \E u, pc : TryGoes(i, u, pc)
    BY <1>0 DEF PickUp, Reap, Expire, Start, TaskEnds, Finish, UpdateFails, Report, Crash
  <2> QED
    BY <2>1 DEF TryGoes, TryShape
<1>4. (\A j \in Ids : j # i => row'[j] = row[j]) /\ RowMove(row[i], row'[i])
  <2>1. CASE Start(i, t)
    BY <2>1 DEF Start, Started, RowShape, RowMove
  <2>2. CASE Finish(i, t)
    BY <2>2 DEF Finish, Ending, RowShape, RowType, RowMove
  <2>3. CASE ~Start(i, t) /\ ~Finish(i, t)
    BY <1>0, <2>3 DEF PickUp, Reap, Expire, TaskEnds, UpdateFails, Report, Crash, RowMove
  <2> QED
    BY <2>1, <2>2, <2>3
<1>5. (\A j \in Ids : j # i => job'[j] = job[j])
      /\ JobMove(job[i], job'[i], AfterFailure(i))
  <2>1. CASE PickUp(i)
    BY <2>1 DEF PickUp, JobShape, JobMove
  <2>2. CASE UNCHANGED job
    BY <2>2 DEF JobMove
  <2>3. ASSUME job[i].state = "active", NEW s, job' = [job EXCEPT ![i].state = s]
        PROVE  job'[i] = [state |-> s, tries |-> job[i].tries, extra |-> job[i].extra]
               /\ \A j \in Ids : j # i => job'[j] = job[j]
    BY <2>3 DEF JobShape, JobType
  <2>4. CASE TryFailed(i) /\ job[i].state = "active"
    BY <2>3, <2>4 DEF TryFailed, JobMove
  <2>5. CASE job' = [job EXCEPT ![i].state = "completed"] /\ job[i].state = "active"
    BY <2>3, <2>5 DEF JobMove
  <2> QED
    BY <1>0, <2>1, <2>2, <2>4, <2>5
       DEF PickUp, Reap, Expire, Start, TaskEnds, Finish, UpdateFails, Report, Crash, IsCurrent
<1> QED
  BY <1>1, <1>2, <1>3, <1>4, <1>5

\* What a step of an operator does to the job i and its row.
Cancels(x, i) ==
  /\ control[x] = "idle" /\ control'[x] = "cancel"
  /\ HasRow(i) /\ row'[i] = row[i]
  /\ job'[i] = [state |-> Cancelled(job[i].state), tries |-> job[i].tries, extra |-> job[i].extra]
  /\ job[i].state = "unsent" => "early" \in marks'[i]
  /\ marks'[i] # {}

Retries(x, i) ==
  /\ control[x] = "idle" /\ control'[x] = "retry"
  /\ HasRow(i) /\ row'[i] = row[i]
  /\ \/ job[i].state # "failed" /\ job'[i] = job[i]
     \/ /\ job[i].state = "failed"
        /\ job'[i] = [state |-> "queued", tries |-> job[i].tries, extra |-> job[i].extra + 1]
  /\ "retry" \in marks'[i]

Writes(x, i) ==
  /\ control[x] \in {"cancel", "retry"} /\ control'[x] = "done"
  /\ job'[i] = job[i] /\ marks'[i] = marks[i]
  /\ row'[i].attempts = row[i].attempts
  /\ \/ ~HasRow(i) /\ row'[i] = row[i]
     \/ HasRow(i) /\ control[x] = "cancel" /\ row'[i].status = "CANCELLED"
     \/ HasRow(i) /\ control[x] = "retry" /\ row'[i].status = "QUEUED"

GivesUp(x, i) ==
  /\ control[x] \in {"cancel", "retry"} /\ control'[x] = "done"
  /\ job'[i] = job[i] /\ row'[i] = row[i]
  /\ "lost" \in marks'[i]

LEMMA OperateMoves ==
  ASSUME Shape, NEW x \in Controls, Operate(x)
  PROVE  /\ \A j \in Ids : j # Subject[x] => /\ job'[j] = job[j] /\ row'[j] = row[j]
                                             /\ marks'[j] = marks[j]
         /\ marks[Subject[x]] \subseteq marks'[Subject[x]]
         /\ UNCHANGED try
         /\ \A y \in Controls : y # x => control'[y] = control[y]
         /\ \/ Cancels(x, Subject[x]) \/ Retries(x, Subject[x])
            \/ Writes(x, Subject[x]) \/ GivesUp(x, Subject[x])
<1> USE DEF Shape
<1> DEFINE i == Subject[x]
<1>0. i \in Ids
  BY JobQueueAssumption
<1>1. CASE BossCancel(x)
  <2>1. job' = [job EXCEPT ![i].state = Cancelled(job[i].state)]
    BY <1>0, <1>1 DEF BossCancel, JobShape
  <2>2. /\ job'[i] = [state |-> Cancelled(job[i].state),
                      tries |-> job[i].tries, extra |-> job[i].extra]
        /\ \A j \in Ids : j # i => job'[j] = job[j]
    BY <1>0, <2>1 DEF JobShape, JobType
  <2>3. /\ \A j \in Ids : j # i => row'[j] = row[j] /\ marks'[j] = marks[j]
        /\ marks[i] \subseteq marks'[i]
        /\ UNCHANGED try
        /\ \A y \in Controls : y # x => control'[y] = control[y]
    BY <1>0, <1>1 DEF BossCancel, Asks, others, Mark, MarksShape, ControlShape
  <2>4. Cancels(x, i)
    BY <1>0, <1>1, <2>2 DEF BossCancel, Asks, Mark, MarksShape, ControlShape, Cancels
  <2> QED
    BY <2>2, <2>3, <2>4
<1>2. CASE BossRetry(x)
  <2>3. /\ \A j \in Ids : j # i => /\ job'[j] = job[j] /\ row'[j] = row[j]
                                   /\ marks'[j] = marks[j]
        /\ marks[i] \subseteq marks'[i]
        /\ UNCHANGED try
        /\ \A y \in Controls : y # x => control'[y] = control[y]
    BY <1>0, <1>2 DEF BossRetry, Asks, others, Mark, MarksShape, ControlShape, JobShape
  <2>4. Retries(x, i)
    BY <1>0, <1>2 DEF BossRetry, Asks, Mark, MarksShape, ControlShape, JobShape, Retries
  <2> QED
    BY <2>3, <2>4
<1>3. CASE ControlRow(x)
  <2>3. /\ \A j \in Ids : j # i => /\ job'[j] = job[j] /\ row'[j] = row[j]
                                   /\ marks'[j] = marks[j]
        /\ marks[i] \subseteq marks'[i]
        /\ UNCHANGED try
        /\ \A y \in Controls : y # x => control'[y] = control[y]
    BY <1>0, <1>3 DEF ControlRow, others, ControlShape, RowShape
  <2>4. Writes(x, i)
    BY <1>0, <1>3 DEF ControlRow, ControlShape, RowShape, RowType, Writes
  <2> QED
    BY <2>3, <2>4
<1>4. CASE ControlDies(x)
  <2>3. /\ \A j \in Ids : j # i => /\ job'[j] = job[j] /\ row'[j] = row[j]
                                   /\ marks'[j] = marks[j]
        /\ marks[i] \subseteq marks'[i]
        /\ UNCHANGED try
        /\ \A y \in Controls : y # x => control'[y] = control[y]
    BY <1>0, <1>4 DEF ControlDies, others, Mark, MarksShape, ControlShape
  <2>4. GivesUp(x, i)
    BY <1>0, <1>4 DEF ControlDies, others, Mark, MarksShape, ControlShape, GivesUp
  <2> QED
    BY <2>3, <2>4
<1> QED
  BY <1>1, <1>2, <1>3, <1>4 DEF Operate

LEMMA EndedWork ==
  ASSUME Shape, NEW i \in Ids, Work(i), NEW j \in Ids, Ended(j)
  PROVE  Ended(j)'
BY WorkMoves DEF Ended, JobMove, Terminal

LEMMA EndedOperate ==
  ASSUME Shape, NEW x \in Controls, Operate(x), NEW j \in Ids, Ended(j)
  PROVE  Ended(j)'
<1>1. CASE j # Subject[x]
  BY <1>1, OperateMoves DEF Ended
<1>2. CASE j = Subject[x]
  <2>1. /\ marks[j] \subseteq marks'[j]
        /\ Cancels(x, j) \/ Retries(x, j) \/ Writes(x, j) \/ GivesUp(x, j)
    BY <1>2, OperateMoves
  <2>2. CASE Cancels(x, j)
    BY <2>1, <2>2 DEF Cancels, Cancelled, Ended, Terminal
  <2>3. CASE Retries(x, j)
    BY <2>3 DEF Retries, Ended
  <2>4. CASE Writes(x, j) \/ GivesUp(x, j)
    BY <2>1, <2>4 DEF Writes, GivesUp, Ended
  <2> QED
    BY <2>1, <2>2, <2>3, <2>4
<1> QED
  BY <1>1, <1>2

LEMMA CancelStep == PublishInv /\ CancelInv /\ [Next]_vars => CancelInv'
<1> SUFFICES ASSUME PublishInv, CancelInv, [Next]_vars PROVE CancelInv'
  OBVIOUS
<1> USE DEF PublishInv
<1>1. CASE UNCHANGED vars
  BY <1>1 DEF vars, CancelInv, Ended
<1>2. ASSUME NEW c \in Callers, Publish(c)
      PROVE  CancelInv'
  <2>1. Current(c) \in Ids
    BY CurrentId DEF Shape
  <2>2. \A j \in Ids : row'[j].status = "CANCELLED" => row[j].status = "CANCELLED"
    BY <1>2, <2>1
       DEF Publish, ReserveRow, ReserveFails, Find, FindFails, Send, SendFails, Withdraw,
           CallerDies, Created, NoRow, Shape, RowShape
  <2>3. UNCHANGED control
    BY <1>2 DEF Publish, ReserveRow, ReserveFails, Find, FindFails, Send, SendFails, Withdraw,
                CallerDies, queueSide
  <2> QED
    BY <1>2, <2>2, <2>3, EndedPublish, JobQueueAssumption DEF CancelInv
<1>3. ASSUME NEW i \in Ids, Work(i)
      PROVE  CancelInv'
  <2>1. \A j \in Ids : row'[j].status = "CANCELLED" => row[j].status = "CANCELLED"
    BY <1>3, WorkMoves DEF RowMove
  <2> QED
    BY <1>3, <2>1, WorkMoves, EndedWork, JobQueueAssumption DEF CancelInv
<1>4. ASSUME NEW x \in Controls, Operate(x)
      PROVE  CancelInv'
  <2>0. Subject[x] \in Ids
    BY JobQueueAssumption
  <2>1. ASSUME NEW j \in Ids, row'[j].status = "CANCELLED"
        PROVE  Ended(j)
    <3>1. CASE row[j].status = "CANCELLED"
      BY <3>1 DEF CancelInv
    <3>2. CASE row[j].status # "CANCELLED"
      <4>1. row'[j] # row[j] /\ j = Subject[x]
        BY <1>4, <2>1, <3>2, OperateMoves
      <4>2. control[x] = "cancel"
        BY <1>4, <2>1, <4>1, OperateMoves DEF Cancels, Retries, Writes, GivesUp, HasRow
      <4> QED
        BY <4>1, <4>2 DEF CancelInv
    <3> QED
      BY <3>1, <3>2
  <2>2. ASSUME NEW y \in Controls, control'[y] = "cancel"
        PROVE  Ended(Subject[y])'
    <3>1. CASE control[y] = "cancel"
      BY <1>4, <3>1, EndedOperate, JobQueueAssumption DEF CancelInv
    <3>2. CASE control[y] # "cancel"
      <4>1. y = x /\ Cancels(x, Subject[x])
        BY <1>4, <2>2, <3>2, OperateMoves DEF Retries, Writes, GivesUp
      <4>2. job[Subject[x]].state \in States
        BY <2>0 DEF Shape, JobShape, JobType
      <4> QED
        BY <4>1, <4>2 DEF Cancels, Ended, Cancelled, States, Terminal
    <3> QED
      BY <3>1, <3>2
  <2> QED
    BY <1>4, <2>1, <2>2, EndedOperate DEF CancelInv
<1> QED
  BY <1>1, <1>2, <1>3, <1>4 DEF Next

\* A cancelled job is not tried again: module JobQueue, CancelStands.
THEOREM CancelIsKept == Spec => []CancelStands
<1>1. Init => CancelInv
  BY DEF Init, CancelInv, NoRow
<1>2. CancelInv => CancelStands
  BY DEF CancelInv, CancelStands, Ended
<1> QED
  BY <1>1, <1>2, PublishInvariant, CancelStep, PTL DEF Spec

-----------------------------------------------------------------------------
(* The table of KeyedJobs. *)

\* The tries of a job against its limit.
JobBounds(r) ==
  /\ r.extra <= r.tries
  /\ r.tries <= RetryLimit + r.extra + 1
  /\ r.state = "unsent" => r.tries = 0 /\ r.extra = 0
  /\ r.state = "queued" => r.tries <= RetryLimit + r.extra
  /\ r.state = "failed" => r.tries = RetryLimit + r.extra + 1

JobBoundsInv == \A j \in Ids : JobBounds(job[j])

\* A publisher takes back the row of an accepted job only when the answer was lost.
LostAnswerInv ==
  \A c \in Callers :
    call[c].pc = "withdraw" /\ job[<<c, call[c].at>>].state # "unsent" => "answer" \in Faults

LEMMA BoundsStep == PublishInv /\ JobBoundsInv /\ [Next]_vars => JobBoundsInv'
<1> SUFFICES ASSUME PublishInv, JobBoundsInv, [Next]_vars, NEW j \in Ids
             PROVE  JobBounds(job'[j])
  BY DEF JobBoundsInv
<1> USE RetryLimitAssumption DEF PublishInv
<1>0. /\ JobBounds(job[j]) /\ job[j].tries \in Nat /\ job[j].extra \in Nat
      /\ job[j].state \in States /\ job[j] \in JobType
  BY DEF JobBoundsInv, Shape, JobShape, JobType
<1>1. CASE job'[j] = job[j]
  BY <1>0, <1>1
<1>2. ASSUME NEW c \in Callers, Publish(c)
      PROVE  JobBounds(job'[j])
  <2>1. CASE UNCHANGED job
    BY <1>1, <2>1
  <2>2. CASE Accepted(Current(c)) /\ job[Current(c)].state = "unsent"
    BY <1>0, <1>1, <2>2, CurrentId DEF Accepted, JobBounds, Shape, JobShape, JobType
  <2>3. call[c].pc = "send" => job[Current(c)].state = "unsent"
    BY CurrentId DEF PublisherInv, At, Shape
  <2> QED
    BY <1>2, <2>1, <2>2, <2>3
       DEF Publish, ReserveRow, ReserveFails, Find, FindFails, Send, SendFails, Withdraw,
           CallerDies, queueSide
<1>3. ASSUME NEW i \in Ids, Work(i)
      PROVE  JobBounds(job'[j])
  <2>1. CASE j # i
    BY <1>1, <1>3, <2>1, WorkMoves
  <2>2. CASE j = i
    <3>1. JobMove(job[j], job'[j], AfterFailure(j))
      BY <1>3, <2>2, WorkMoves
    <3>2. CASE job[j].state = "queued"
      BY <1>0, <1>1, <3>1, <3>2 DEF JobMove, JobBounds
    <3>3. CASE job[j].state = "active"
      BY <1>0, <1>1, <3>1, <3>3 DEF JobMove, JobBounds, AfterFailure
    <3> QED
      BY <1>1, <3>1, <3>2, <3>3 DEF JobMove
  <2> QED
    BY <2>1, <2>2
<1>4. ASSUME NEW x \in Controls, Operate(x)
      PROVE  JobBounds(job'[j])
  <2>1. CASE j # Subject[x]
    BY <1>1, <1>4, <2>1, OperateMoves
  <2>2. CASE j = Subject[x]
    <3>1. Cancels(x, j) \/ Retries(x, j) \/ job'[j] = job[j]
      BY <1>4, <2>2, OperateMoves DEF Writes, GivesUp
    <3>2. CASE Cancels(x, j)
      BY <1>0, <3>2 DEF Cancels, Cancelled, JobBounds
    <3>3. CASE Retries(x, j)
      BY <1>0, <1>1, <3>3 DEF Retries, JobBounds
    <3> QED
      BY <1>1, <3>1, <3>2, <3>3
  <2> QED
    BY <2>1, <2>2
<1> QED
  BY <1>1, <1>2, <1>3, <1>4 DEF Next, vars

LEMMA LostAnswerStep == PublishInv /\ LostAnswerInv /\ [Next]_vars => LostAnswerInv'
<1> SUFFICES ASSUME PublishInv, LostAnswerInv, [Next]_vars, NEW d \in Callers,
                    call'[d].pc = "withdraw", job'[<<d, call'[d].at>>].state # "unsent"
             PROVE  "answer" \in Faults
  BY DEF LostAnswerInv
<1> USE DEF PublishInv
<1>0. CallShape /\ Current(d) = <<d, call[d].at>> /\ Current(d) \in Ids
  BY CurrentId DEF Shape, Current
<1>1. CASE UNCHANGED call /\ (job'[Current(d)].state = "unsent" <=> job[Current(d)].state = "unsent")
  BY <1>0, <1>1 DEF LostAnswerInv
<1>2. ASSUME NEW c \in Callers, Publish(c)
      PROVE  "answer" \in Faults
  <2>0. Current(c) \in Ids
    BY <1>0, CurrentId
  <2>1. CASE d # c
    <3>1. call'[d] = call[d]
      <4>1. (\E pc \in CallSteps : Goes(c, pc)) \/ \E l \in Ids : Answer(c, l)
        BY <1>2, <2>0
           DEF Publish, ReserveRow, ReserveFails, Find, FindFails, Send, SendFails, Withdraw,
               CallerDies, Throws, CallSteps
      <4> QED
        BY <1>0, <2>1, <4>1, GoesCall, AnswerCall DEF Shape
    <3>2. job'[Current(d)] = job[Current(d)]
      <4>1. Current(d) # Current(c)
        BY <2>1 DEF Current
      <4>2. UNCHANGED job \/ Accepted(Current(c))
        BY <1>2
           DEF Publish, ReserveRow, ReserveFails, Find, FindFails, Send, SendFails, Withdraw,
               CallerDies, queueSide
      <4> QED
        BY <1>0, <2>0, <4>1, <4>2 DEF Accepted, Shape, JobShape
    <3> QED
      BY <1>0, <3>1, <3>2 DEF LostAnswerInv
  <2>2. CASE d = c
    <3>1. CASE SendFails(c)
      <4>1. job[Current(c)].state = "unsent" /\ call'[c].at = call[c].at
        BY <1>0, <2>0, <3>1, CurrentId, GoesCall DEF SendFails, PublisherInv, At, CallSteps
      <4> QED
        BY <1>0, <2>2, <3>1, <4>1 DEF SendFails, Fault
    <3>2. CASE ~SendFails(c)
      <4>1. (\E pc \in CallSteps \ {"withdraw"} : Goes(c, pc)) \/ \E l \in Ids : Answer(c, l)
        BY <1>2, <2>0, <3>2
           DEF Publish, ReserveRow, ReserveFails, Find, FindFails, Send, Withdraw,
               CallerDies, Throws, CallSteps
      <4> QED
        BY <1>0, <2>2, <4>1, GoesCall, AnswerCall DEF Shape
    <3> QED
      BY <3>1, <3>2
  <2> QED
    BY <2>1, <2>2
<1> QED
  BY <1>0, <1>1, <1>2, QuietWork, QuietOperate DEF Next, vars

\* The moves of one entry of the table.
EntryMove(old, new) ==
  \/ old.state = "none" /\ new.state = "reserved" /\ new.tries = old.tries
  \/ old.state = "reserved" /\ new.state \in {"queued", "none"} /\ new.tries = old.tries
  \/ old.state = "queued" /\ new.state = "active" /\ new.tries = old.tries + 1
  \/ old.state = "queued" /\ new.state = "dead" /\ new.tries = old.tries
  \/ old.state = "active" /\ new.state \in {"done", "dead"} /\ new.tries = old.tries
  \/ /\ old.state = "active" /\ old.tries <= RetryLimit
     /\ new.state = "queued" /\ new.tries = old.tries
  \/ old.state = "dead" /\ new.state = "queued" /\ new.tries = RetryLimit
  \/ "answer" \in Faults /\ new = NoJob

LEMMA EntryMoves ==
  ASSUME NEW K, NEW old, NEW k \in K, NEW s, NEW n, NEW t, NEW u,
         old = [i \in K |-> old[i]], old[k] = [state |-> s, tries |-> n],
         NEW new, new = [old EXCEPT ![k] = [state |-> t, tries |-> u]],
         EntryMove(old[k], new[k])
  PROVE  Table!Moves(old, new, k)
<1>1. new[k] = [state |-> t, tries |-> u]
  OBVIOUS
<1>2. ASSUME n = u
      PROVE  new = [old EXCEPT ![k].state = t]
  <2>1. [old[k] EXCEPT !.state = t] = [state |-> t, tries |-> u]
    BY <1>2
  <2>2. [old EXCEPT ![k].state = t] = [old EXCEPT ![k] = [old[k] EXCEPT !.state = t]]
    OBVIOUS
  <2> QED
    BY <2>1, <2>2
<1>3. old[k].state = s /\ old[k].tries = n /\ new[k].state = t /\ new[k].tries = u
  BY <1>1
<1>4. CASE s = "none" /\ t = "reserved" /\ u = n
  BY <1>2, <1>3, <1>4 DEF Table!Moves, Table!Is, Table!Reserve
<1>5. CASE s = "reserved" /\ t \in {"queued", "none"} /\ u = n
  BY <1>2, <1>3, <1>5 DEF Table!Moves, Table!Is, Table!Sent, Table!Release
<1>6. CASE s = "queued" /\ t = "active" /\ u = n + 1
  BY <1>3, <1>6 DEF Table!Moves, Table!Is, Table!Begin
<1>7. CASE s = "queued" /\ t = "dead" /\ u = n
  BY <1>2, <1>3, <1>7 DEF Table!Moves, Table!Is, Table!Stopped
<1>8. CASE s = "active" /\ t \in {"done", "dead"} /\ u = n
  BY <1>2, <1>3, <1>8 DEF Table!Moves, Table!Is, Table!Complete, Table!Stopped
<1>9. CASE s = "active" /\ n <= RetryLimit /\ t = "queued" /\ u = n
  BY <1>2, <1>3, <1>9 DEF Table!Moves, Table!Is, Table!FailTry
<1>10. CASE s = "dead" /\ t = "queued" /\ u = RetryLimit
  BY <1>3, <1>10 DEF Table!Moves, Table!Is, Table!Redriven
<1>11. CASE "answer" \in Faults /\ new[k] = NoJob
  BY <1>1, <1>11 DEF Table!Moves, Table!NoJob, NoJob
<1> QED
  BY <1>3, <1>4, <1>5, <1>6, <1>7, <1>8, <1>9, <1>10, <1>11 DEF EntryMove

\* The entry of a key is that of the job whose row holds it.
LEMMA HeldEntry ==
  ASSUME KeysUnique, NEW j \in Ids, HasRow(j)
  PROVE  Entry(KeyOf[j]) = EntryOf(j)
<1>1. Holds(j, KeyOf[j]) /\ \A l \in Ids : Holds(l, KeyOf[j]) => l = j
  BY DEF KeysUnique, Holds
<1>2. (CHOOSE l \in Ids : Holds(l, KeyOf[j])) = j
  BY <1>1
<1> QED
  BY <1>1, <1>2 DEF Entry, KeyIsFree

LEMMA FreeEntry ==
  ASSUME NEW k, KeyIsFree(k)
  PROVE  Entry(k) = NoJob
BY DEF Entry

LEMMA HeldEntryNext ==
  ASSUME KeysUnique', NEW j \in Ids, HasRow(j)'
  PROVE  Entry(KeyOf[j])' = EntryOf(j)'
<1>1. Holds(j, KeyOf[j])' /\ \A l \in Ids : Holds(l, KeyOf[j])' => l = j
  BY DEF KeysUnique, Holds
<1>2. (CHOOSE l \in Ids : Holds(l, KeyOf[j])') = j
  BY <1>1
<1> QED
  BY <1>1, <1>2 DEF Entry, KeyIsFree

TableNow == [k \in Keys |-> Entry(k)]

\* A step that changes one job, and its row, changes the entry of one key.
LEMMA OtherEntries ==
  ASSUME KeysUnique, KeysUnique', NEW i \in Ids,
         \A j \in Ids : j # i => (HasRow(j)' <=> HasRow(j)) /\ job'[j] = job[j],
         NEW k \in Keys,
         k # KeyOf[i] \/ ~(HasRow(i) \/ HasRow(i)')
  PROVE  TableNow'[k] = TableNow[k]
<1> SUFFICES Entry(k)' = Entry(k)
  BY DEF TableNow
<1>1. CASE KeyIsFree(k)
  <2>1. KeyIsFree(k)'
    BY <1>1 DEF KeyIsFree, Holds
  <2> QED
    BY <1>1, <2>1 DEF Entry
<1>2. CASE ~KeyIsFree(k)
  <2>1. PICK j \in Ids : HasRow(j) /\ KeyOf[j] = k
    BY <1>2 DEF KeyIsFree, Holds
  <2>2. j # i /\ HasRow(j)' /\ job'[j] = job[j]
    BY <2>1
  <2>3. EntryOf(j)' = EntryOf(j)
    BY <2>2 DEF EntryOf
  <2> QED
    BY <2>1, <2>2, <2>3, HeldEntry, HeldEntryNext
<1> QED
  BY <1>1, <1>2

LEMMA OneEntryMoves ==
  ASSUME KeysUnique, KeysUnique', NEW i \in Ids,
         \A j \in Ids : j # i => (HasRow(j)' <=> HasRow(j)) /\ job'[j] = job[j],
         HasRow(i) \/ HasRow(i)' =>
           \/ Entry(KeyOf[i])' = Entry(KeyOf[i])
           \/ EntryMove(Entry(KeyOf[i]), Entry(KeyOf[i])')
  PROVE  TableNow' = TableNow \/ Table!Step(TableNow, TableNow')
<1> DEFINE k == KeyOf[i]
<1>0. k \in Keys
  BY DEF Keys
<1>4. ASSUME NEW l \in Keys, l # KeyOf[i] \/ ~(HasRow(i) \/ HasRow(i)')
      PROVE  TableNow'[l] = TableNow[l]
  BY <1>4, OtherEntries
<1>1. CASE ~HasRow(i) /\ ~HasRow(i)'
  BY <1>1, <1>4 DEF TableNow
<1>2. CASE Entry(k)' = Entry(k)
  <2>1. ASSUME NEW l \in Keys
        PROVE  TableNow'[l] = TableNow[l]
    <3>1. CASE l = KeyOf[i]
      BY <1>2, <3>1 DEF TableNow
    <3> QED
      BY <3>1, <1>4
  <2> QED
    BY <2>1 DEF TableNow
<1>3. CASE Entry(k)' # Entry(k) /\ EntryMove(Entry(k), Entry(k)')
  <2> DEFINE old == TableNow
             new == TableNow'
             s == Entry(k).state
             n == Entry(k).tries
             t == Entry(k)'.state
             u == Entry(k)'.tries
  <2>1. Entry(k) = [state |-> s, tries |-> n]
    BY DEF Entry, EntryOf, NoJob
  <2>2. Entry(k)' = [state |-> t, tries |-> u]
    BY DEF Entry, EntryOf, NoJob
  <2>3. old = [l \in Keys |-> old[l]] /\ old[k] = Entry(k) /\ new[k] = Entry(k)'
    BY <1>0 DEF TableNow
  <2>4. new = [old EXCEPT ![k] = [state |-> t, tries |-> u]]
    <3>1. \A l \in Keys : l # k => TableNow'[l] = TableNow[l]
      BY <1>4
    <3> QED
      BY <1>0, <2>2, <2>3, <3>1 DEF TableNow
  <2>5. Table!Moves(old, new, k)
    <3> HIDE DEF old, new, s, n, t, u, k
    <3> QED
      BY <1>0, <1>3, <2>1, <2>2, <2>3, <2>4, EntryMoves
  <2> QED
    BY <1>0, <1>3, <2>3, <2>5 DEF Table!Step
<1> QED
  BY <1>1, <1>2, <1>3

LEMMA SameTable ==
  ASSUME UNCHANGED <<row, job>>
  PROVE  TableNow' = TableNow
BY DEF TableNow, Entry, EntryOf, KeyIsFree, Holds, HasRow

TableSteps == TableNow' = TableNow \/ Table!Step(TableNow, TableNow')

LEMMA PublishTable ==
  ASSUME PublishInv, JobBoundsInv, LostAnswerInv, PublishInv', NEW c \in Callers, Publish(c)
  PROVE  TableSteps
<1>i. PICK i \in Ids : i = Current(c)
  BY CurrentId DEF PublishInv, Shape
<1>0. i[1] = c /\ i[2] = call[c].at /\ i = <<c, call[c].at>>
  BY <1>i, CurrentId DEF PublishInv, Shape, Current
<1>u. call[c].pc = "reserve" \/ call[c].pc \in {"find", "send"} => job[i].state = "unsent"
  BY <1>0 DEF PublishInv, PublisherInv, Ahead, At
<1>r. call[c].pc \in {"send", "withdraw"} => HasRow(i)
  BY <1>0 DEF PublishInv, PublisherInv, At
<1>b. job[i].state = "unsent" => job[i].tries = 0 /\ job[i].extra = 0
  BY DEF JobBoundsInv, JobBounds
<1>k. KeysUnique /\ KeysUnique'
  BY DEF PublishInv
<1>1. CASE UNCHANGED <<row, job>>
  BY <1>1, SameTable DEF TableSteps
<1>2. CASE /\ call[c].pc = "reserve" /\ KeyIsFree(KeyOf[i])
           /\ Created(c) /\ UNCHANGED job
  <2>1. row'[i].status = "QUEUED" /\ \A j \in Ids : j # i => row'[j] = row[j]
    BY <1>i, <1>2 DEF Created, PublishInv, Shape, RowShape
  <2>2. HasRow(i)' /\ \A j \in Ids : j # i => (HasRow(j)' <=> HasRow(j)) /\ job'[j] = job[j]
    BY <1>2, <2>1 DEF HasRow
  <2>3. Entry(KeyOf[i]) = NoJob
    BY <1>2, FreeEntry
  <2>4. Entry(KeyOf[i])' = EntryOf(i)'
    BY <1>k, <2>2, HeldEntryNext
  <2>5. job[i].state = "unsent"
    BY <1>0, <1>2 DEF PublishInv, PublisherInv, Ahead
  <2>6. EntryMove(Entry(KeyOf[i]), Entry(KeyOf[i])')
    BY <1>2, <1>b, <2>3, <2>4, <2>5 DEF EntryMove, EntryOf, NoJob
  <2> QED
    BY <1>k, <2>2, <2>6, OneEntryMoves DEF TableSteps
<1>3. CASE /\ call[c].pc = "send" /\ UNCHANGED row /\ Accepted(Current(c))
  <2>1. /\ job'[i] = [state |-> "queued", tries |-> job[i].tries, extra |-> job[i].extra]
        /\ \A j \in Ids : j # i => job'[j] = job[j]
    BY <1>i, <1>3 DEF Accepted, PublishInv, Shape, JobShape, JobType
  <2>2. /\ HasRow(i) /\ HasRow(i)'
        /\ \A j \in Ids : j # i => (HasRow(j)' <=> HasRow(j)) /\ job'[j] = job[j]
    BY <1>3, <1>r, <2>1 DEF HasRow
  <2>3. Entry(KeyOf[i]) = EntryOf(i)
    BY <1>k, <2>2, HeldEntry
  <2>4. Entry(KeyOf[i])' = EntryOf(i)'
    BY <1>k, <2>2, HeldEntryNext
  <2>5. EntryMove(Entry(KeyOf[i]), Entry(KeyOf[i])')
    BY <1>3, <1>u, <1>b, <2>1, <2>3, <2>4 DEF EntryMove, EntryOf
  <2> QED
    BY <1>k, <2>2, <2>5, OneEntryMoves DEF TableSteps
<1>4. CASE /\ call[c].pc = "withdraw" /\ UNCHANGED job
           /\ row' = [row EXCEPT ![Current(c)] = NoRow]
  <2>1. row'[i].status = "NONE" /\ \A j \in Ids : j # i => row'[j] = row[j]
    BY <1>i, <1>4 DEF NoRow, PublishInv, Shape, RowShape
  <2>2. /\ HasRow(i) /\ ~HasRow(i)'
        /\ \A j \in Ids : j # i => (HasRow(j)' <=> HasRow(j)) /\ job'[j] = job[j]
    BY <1>4, <1>r, <2>1 DEF HasRow
  <2>3. Entry(KeyOf[i]) = EntryOf(i)
    BY <1>k, <2>2, HeldEntry
  <2>4. Entry(KeyOf[i])' = NoJob
    <3>1. KeyIsFree(KeyOf[i])'
      BY <1>k, <2>1, <2>2 DEF KeyIsFree, Holds, KeysUnique, HasRow
    <3> QED
      BY <3>1 DEF Entry
  <2>5. EntryMove(Entry(KeyOf[i]), Entry(KeyOf[i])')
    <3>1. CASE job[i].state = "unsent"
      BY <1>b, <2>3, <2>4, <3>1 DEF EntryMove, EntryOf, NoJob
    <3>2. CASE job[i].state # "unsent"
      BY <1>0, <1>4, <2>4, <3>2 DEF EntryMove, LostAnswerInv
    <3> QED
      BY <3>1, <3>2
  <2> QED
    BY <1>k, <2>2, <2>5, OneEntryMoves DEF TableSteps
<1> QED
  BY <1>i, <1>1, <1>2, <1>3, <1>4
     DEF Publish, ReserveRow, ReserveFails, Find, FindFails, Send, SendFails, Withdraw,
         CallerDies, queueSide

LEMMA WorkTable ==
  ASSUME PublishInv, JobBoundsInv, PublishInv', NEW i \in Ids, Work(i)
  PROVE  TableSteps
<1>k. KeysUnique /\ KeysUnique' /\ Shape
  BY DEF PublishInv
<1>1. \A j \in Ids : j # i => (HasRow(j)' <=> HasRow(j)) /\ job'[j] = job[j]
  BY <1>k, WorkMoves DEF HasRow
<1>2. CASE ~HasRow(i)
  <2>1. ~HasRow(i)'
    BY <1>k, <1>2, QuietWork DEF HasRow
  <2> QED
    BY <1>k, <1>1, <1>2, <2>1, OneEntryMoves DEF TableSteps
<1>3. CASE HasRow(i)
  <2>1. HasRow(i)'
    BY <1>k, <1>3, QuietWork DEF HasRow
  <2>2. Entry(KeyOf[i]) = EntryOf(i)
    BY <1>k, <1>3, HeldEntry
  <2>3. Entry(KeyOf[i])' = EntryOf(i)'
    BY <1>k, <2>1, HeldEntryNext
  <2>4. JobMove(job[i], job'[i], AfterFailure(i))
    BY <1>k, WorkMoves
  <2>5. job[i].tries \in Nat /\ job[i].extra \in Nat /\ job[i].extra <= job[i].tries
    BY <1>k DEF Shape, JobShape, JobType, JobBoundsInv, JobBounds
  <2>6. \/ Entry(KeyOf[i])' = Entry(KeyOf[i])
        \/ EntryMove(Entry(KeyOf[i]), Entry(KeyOf[i])')
    <3>1. CASE job'[i] = job[i]
      BY <2>2, <2>3, <3>1 DEF EntryOf
    <3>2. CASE job[i].state = "queued" /\ job'[i] # job[i]
      BY <2>2, <2>3, <2>4, <2>5, <3>2 DEF EntryOf, EntryMove, JobMove
    <3>3. CASE job[i].state = "active" /\ job'[i] # job[i]
      BY <2>2, <2>3, <2>4, <2>5, <3>3, RetryLimitAssumption
         DEF EntryOf, EntryMove, JobMove, AfterFailure
    <3> QED
      BY <2>4, <3>1, <3>2, <3>3 DEF JobMove
  <2> QED
    BY <1>k, <1>1, <2>6, OneEntryMoves DEF TableSteps
<1> QED
  BY <1>2, <1>3

LEMMA OperateTable ==
  ASSUME PublishInv, JobBoundsInv, PublishInv', NEW x \in Controls, Operate(x)
  PROVE  TableSteps
<1>i. PICK i \in Ids : i = Subject[x]
  BY JobQueueAssumption
<1>k. KeysUnique /\ KeysUnique' /\ Shape
  BY DEF PublishInv
<1>1. \A j \in Ids : j # i => (HasRow(j)' <=> HasRow(j)) /\ job'[j] = job[j]
  BY <1>i, <1>k, OperateMoves DEF HasRow
<1>2. CASE ~HasRow(i)
  <2>1. ~HasRow(i)'
    BY <1>k, <1>2, QuietOperate DEF HasRow
  <2> QED
    BY <1>k, <1>1, <1>2, <2>1, OneEntryMoves DEF TableSteps
<1>3. CASE HasRow(i)
  <2>1. HasRow(i)'
    BY <1>k, <1>3, QuietOperate DEF HasRow
  <2>2. Entry(KeyOf[i]) = EntryOf(i)
    BY <1>k, <1>3, HeldEntry
  <2>3. Entry(KeyOf[i])' = EntryOf(i)'
    BY <1>k, <2>1, HeldEntryNext
  <2>4. /\ job[i].tries \in Nat /\ job[i].extra \in Nat
        /\ job[i].state \in States /\ JobBounds(job[i])
    BY <1>k DEF Shape, JobShape, JobType, JobBoundsInv
  <2>5. Cancels(x, i) \/ Retries(x, i) \/ job'[i] = job[i]
    BY <1>i, <1>k, OperateMoves DEF Writes, GivesUp
  <2>6. \/ Entry(KeyOf[i])' = Entry(KeyOf[i])
        \/ EntryMove(Entry(KeyOf[i]), Entry(KeyOf[i])')
    <3>1. CASE job'[i] = job[i]
      BY <2>2, <2>3, <3>1 DEF EntryOf
    <3>2. CASE Cancels(x, i)
      <4>1. job'[i].state = Cancelled(job[i].state)
            /\ job'[i].tries = job[i].tries /\ job'[i].extra = job[i].extra
        BY <3>2 DEF Cancels
      <4>2. CASE job[i].state \in {"queued", "active"}
        BY <2>2, <2>3, <4>1, <4>2 DEF EntryOf, EntryMove, Cancelled
      <4>3. CASE job[i].state \notin {"queued", "active"}
        BY <2>2, <2>3, <4>1, <4>3 DEF EntryOf, Cancelled
      <4> QED
        BY <4>2, <4>3
    <3>3. CASE Retries(x, i) /\ job'[i] # job[i]
      <4>1. /\ job[i].state = "failed" /\ job'[i].state = "queued"
            /\ job'[i].tries = job[i].tries /\ job'[i].extra = job[i].extra + 1
        BY <3>3 DEF Retries
      <4>2. job'[i].tries - job'[i].extra = RetryLimit
        BY <2>4, <4>1, RetryLimitAssumption DEF JobBounds
      <4> QED
        BY <2>2, <2>3, <4>1, <4>2 DEF EntryOf, EntryMove
    <3> QED
      BY <2>5, <3>1, <3>2, <3>3
  <2> QED
    BY <1>k, <1>1, <2>6, OneEntryMoves DEF TableSteps
<1> QED
  BY <1>2, <1>3

RefinementInv == PublishInv /\ JobBoundsInv /\ LostAnswerInv

LEMMA TableStep == RefinementInv /\ RefinementInv' /\ [Next]_vars => TableSteps
<1> SUFFICES ASSUME RefinementInv, RefinementInv', [Next]_vars PROVE TableSteps
  OBVIOUS
<1>1. CASE UNCHANGED vars
  BY <1>1, SameTable DEF TableSteps, vars
<1> QED
  BY <1>1, PublishTable, WorkTable, OperateTable DEF Next, RefinementInv

LEMMA RefinementInvariant == Spec => []RefinementInv
<1>1. Init => RefinementInv
  <2> SUFFICES ASSUME Init PROVE JobBoundsInv /\ LostAnswerInv
    BY InitPublishInv DEF RefinementInv
  <2>1. JobBoundsInv
    BY RetryLimitAssumption DEF Init, JobBoundsInv, JobBounds, Unsent
  <2>2. LostAnswerInv
    BY DEF Init, LostAnswerInv
  <2> QED
    BY <2>1, <2>2
<1>2. RefinementInv /\ [Next]_vars => RefinementInv'
  BY PublishInvStep, BoundsStep, LostAnswerStep DEF RefinementInv
<1> QED
  BY <1>1, <1>2, PTL DEF Spec

\* Rows and jobs together implement the table: module JobQueue, TableRefinement.
THEOREM QueueImplementsTable == Spec => TableRefinement
<1>1. Init => Table!TableInit
  <2> SUFFICES ASSUME Init, NEW k \in Keys PROVE Entry(k) = NoJob
    BY DEF Table!TableInit, Table!NoJob, NoJob
  <2>1. KeyIsFree(k)
    BY DEF Init, KeyIsFree, Holds, HasRow, NoRow
  <2> QED
    BY <2>1, FreeEntry
<1>2. RefinementInv /\ RefinementInv' /\ [Next]_vars
        => [Table!Step(TableNow, TableNow')]_TableNow
  BY TableStep DEF TableSteps
<1> QED
  BY <1>1, <1>2, RefinementInvariant, PTL
     DEF Spec, TableRefinement, Table!TableSpec, TableNow
-----------------------------------------------------------------------------
(* Tries, and what the row says of them. *)

\* The tries whose first update has yet to come.
Picked(j) == {t \in 1 .. MaxTries : try[j][t] = "picked"}

\* The cancels and retries that there have been of a job.
Asked(j) == {x \in Controls : Subject[x] = j /\ control[x] # "idle"}

ExtraInv == \A j \in Ids : job[j].extra <= Cardinality(Asked(j))

\* No try runs that pg-boss has not begun.
Begun(j) == \A t \in 1 .. MaxTries : t > job[j].tries => try[j][t] = "none"

\* AttemptsAreTries, of one job.
Counted(j) ==
  IF HasRow(j)
  THEN /\ row[j].attempts + Cardinality(Picked(j)) <= job[j].tries
       /\ "lost" \notin marks[j]
            => row[j].attempts + Cardinality(Picked(j)) = job[j].tries
  ELSE row[j].attempts = 0

\* Unless a job expired or somebody interfered, only the try that pg-boss waits
\* for is at work, and nobody else writes the row after it has written COMPLETED.
Alone(j) ==
  marks[j] \subseteq {"lost"} =>
    /\ job[j].state # "cancelled"
    /\ \A t \in 1 .. MaxTries :
         try[j][t] \in AtWork => job[j].state = "active" /\ job[j].tries = t
    /\ HasRow(j) /\ (job[j].state = "completed" \/ \E t \in 1 .. MaxTries : try[j][t] = "acks")
         => row[j].status = "COMPLETED"

Waits(tries) == IF tries = 0 THEN "QUEUED" ELSE "FAILED"

\* What the row says when nothing came in between, step by step.
Told(j) ==
  marks[j] = {} /\ HasRow(j) =>
    /\ job[j].state = "active"
         => \E t \in 1 .. MaxTries : job[j].tries = t /\ try[j][t] \in AtWork
    /\ \A t \in 1 .. MaxTries :
         /\ try[j][t] \in {"running", "returned", "threw"} => row[j].status = "RUNNING"
         /\ try[j][t] = "nacks" => row[j].status = "FAILED"
         /\ try[j][t] = "picked" => row[j].status = Waits(t - 1)
    /\ job[j].state \in {"unsent", "queued"} => row[j].status = Waits(job[j].tries)
    /\ job[j].state = "failed" => row[j].status = "FAILED"

Sound(j) == Begun(j) /\ Counted(j) /\ Alone(j) /\ Told(j)

\* Who cancels or retries a job has left a mark on it.
ControlInv ==
  \A x \in Controls :
    control[x] \in {"cancel", "retry"} => ~(marks[Subject[x]] \subseteq {"lost"})

TriesInv == ExtraInv /\ ControlInv /\ \A j \in Ids : Sound(j)

LEMMA MaxTriesType ==
  /\ MaxTries \in Nat /\ RetryLimit + 1 <= MaxTries
  /\ Cardinality(Controls) \in Nat
BY FS_CardinalityType, RetryLimitAssumption, JobQueueAssumption DEF MaxTries

LEMMA AskedType ==
  \A j \in Ids : /\ IsFiniteSet(Asked(j))
                 /\ Cardinality(Asked(j)) \in Nat
                 /\ Cardinality(Asked(j)) <= Cardinality(Controls)
<1> SUFFICES ASSUME NEW j \in Ids
             PROVE  /\ IsFiniteSet(Asked(j))
                    /\ Cardinality(Asked(j)) \in Nat
                    /\ Cardinality(Asked(j)) <= Cardinality(Controls)
  OBVIOUS
<1>1. Asked(j) \in SUBSET Controls
  BY DEF Asked
<1> QED
  BY <1>1, FS_Subset, FS_CardinalityType, JobQueueAssumption

LEMMA PickedType ==
  \A j \in Ids : IsFiniteSet(Picked(j)) /\ Cardinality(Picked(j)) \in Nat
<1> SUFFICES ASSUME NEW j \in Ids
             PROVE  IsFiniteSet(Picked(j)) /\ Cardinality(Picked(j)) \in Nat
  OBVIOUS
<1>1. IsFiniteSet(1 .. MaxTries) /\ Picked(j) \in SUBSET (1 .. MaxTries)
  BY MaxTriesType, FS_Interval DEF Picked
<1> QED
  BY <1>1, FS_Subset, FS_CardinalityType

\* A job that waits has a try left.
LEMMA TryLeft ==
  ASSUME Shape, JobBoundsInv, ExtraInv, NEW j \in Ids
  PROVE  /\ job[j].tries \in Nat /\ job[j].tries <= MaxTries
         /\ job[j].state = "queued" => job[j].tries + 1 \in 1 .. MaxTries
<1>1. /\ job[j].tries \in Nat /\ job[j].extra \in Nat
      /\ job[j].extra <= Cardinality(Asked(j))
  BY DEF Shape, JobShape, JobType, ExtraInv
<1>2. job[j].extra <= Cardinality(Controls)
  BY <1>1, AskedType, MaxTriesType
<1> QED
  BY <1>1, <1>2, MaxTriesType, RetryLimitAssumption DEF JobBoundsInv, JobBounds, MaxTries

\* A try goes on by a step.
LEMMA TryUpdate ==
  ASSUME TryShape, NEW j \in Ids, NEW t \in 1 .. MaxTries, NEW pc, TryGoes(j, t, pc)
  PROVE  /\ try'[j][t] = pc
         /\ \A u \in 1 .. MaxTries : u # t => try'[j][u] = try[j][u]
<1>1. try[j] \in [1 .. MaxTries -> TrySteps]
  BY DEF TryShape
<1>2. try'[j] = [try[j] EXCEPT ![t] = pc]
  BY DEF TryShape, TryGoes
<1> QED
  BY <1>1, <1>2

LEMMA PickedStep ==
  ASSUME TryShape, NEW j \in Ids, NEW t \in 1 .. MaxTries, NEW pc, TryGoes(j, t, pc)
  PROVE  /\ try[j][t] = "picked" /\ pc # "picked"
              => Cardinality(Picked(j)') = Cardinality(Picked(j)) - 1
         /\ try[j][t] # "picked" /\ pc = "picked"
              => Cardinality(Picked(j)') = Cardinality(Picked(j)) + 1
         /\ try[j][t] # "picked" /\ pc # "picked"
              => Cardinality(Picked(j)') = Cardinality(Picked(j))
<1>1. /\ try'[j][t] = pc
      /\ \A u \in 1 .. MaxTries : u # t => try'[j][u] = try[j][u]
  BY TryUpdate
<1>2. ASSUME try[j][t] = "picked", pc # "picked"
      PROVE  Cardinality(Picked(j)') = Cardinality(Picked(j)) - 1
  <2>1. Picked(j)' = Picked(j) \ {t} /\ t \in Picked(j)
    BY <1>1, <1>2 DEF Picked
  <2> QED
    BY <2>1, PickedType, FS_RemoveElement
<1>3. ASSUME try[j][t] # "picked", pc = "picked"
      PROVE  Cardinality(Picked(j)') = Cardinality(Picked(j)) + 1
  <2>1. Picked(j)' = Picked(j) \cup {t} /\ t \notin Picked(j)
    BY <1>1, <1>3 DEF Picked
  <2> QED
    BY <2>1, PickedType, FS_AddElement
<1>4. ASSUME try[j][t] # "picked", pc # "picked"
      PROVE  Cardinality(Picked(j)') = Cardinality(Picked(j))
  <2>1. Picked(j)' = Picked(j)
    BY <1>1, <1>4 DEF Picked
  <2> QED
    BY <2>1
<1> QED
  BY <1>2, <1>3, <1>4

\* What a publisher does to a job and its row.
LEMMA PublishMoves ==
  ASSUME PublishInv, NEW c \in Callers, Publish(c), NEW j \in Ids
  PROVE  /\ UNCHANGED <<try, control, marks>>
         /\ \/ job'[j] = job[j]
            \/ /\ job[j].state = "unsent" /\ HasRow(j) /\ row'[j] = row[j]
               /\ job'[j] = [state |-> "queued", tries |-> job[j].tries, extra |-> job[j].extra]
         /\ \/ row'[j] = row[j]
            \/ row'[j] = NoRow /\ job'[j] = job[j]
            \/ /\ job[j].state = "unsent" /\ job'[j] = job[j]
               /\ row'[j] = [status |-> "QUEUED", attempts |-> 0]
<1> USE DEF PublishInv
<1>0. Current(c) \in Ids
  BY CurrentId DEF Shape
<1>1. UNCHANGED <<try, control, marks>>
  BY DEF Publish, ReserveRow, ReserveFails, Find, FindFails, Send, SendFails, Withdraw,
         CallerDies, queueSide
<1>2. call[c].pc \in {"reserve", "send"} => job[Current(c)].state = "unsent"
  BY <1>0, CurrentId DEF PublisherInv, At, Ahead, Shape
<1>3. call[c].pc = "send" => HasRow(Current(c))
  BY <1>0, CurrentId DEF PublisherInv, At, Shape
<1>4. \/ UNCHANGED job
      \/ call[c].pc = "send" /\ UNCHANGED row /\ Accepted(Current(c))
  BY DEF Publish, ReserveRow, ReserveFails, Find, FindFails, Send, SendFails, Withdraw,
         CallerDies, queueSide
<1>5. \/ UNCHANGED row
      \/ UNCHANGED job /\ row' = [row EXCEPT ![Current(c)] = NoRow]
      \/ UNCHANGED job /\ call[c].pc = "reserve" /\ Created(c)
  BY DEF Publish, ReserveRow, ReserveFails, Find, FindFails, Send, SendFails, Withdraw,
         CallerDies, queueSide
<1>6. \/ job'[j] = job[j]
      \/ /\ job[j].state = "unsent" /\ HasRow(j) /\ row'[j] = row[j]
         /\ job'[j] = [state |-> "queued", tries |-> job[j].tries, extra |-> job[j].extra]
  BY <1>0, <1>2, <1>3, <1>4 DEF Accepted, Shape, JobShape, JobType
<1>7. \/ row'[j] = row[j]
      \/ row'[j] = NoRow /\ job'[j] = job[j]
      \/ /\ job[j].state = "unsent" /\ job'[j] = job[j]
         /\ row'[j] = [status |-> "QUEUED", attempts |-> 0]
  BY <1>0, <1>2, <1>5 DEF Created, Shape, RowShape
<1> QED
  BY <1>1, <1>6, <1>7

LEMMA ExtraStep == PublishInv /\ ExtraInv /\ [Next]_vars => ExtraInv'
<1> SUFFICES ASSUME PublishInv, ExtraInv, [Next]_vars, NEW j \in Ids
             PROVE  job'[j].extra <= Cardinality(Asked(j)')
  BY DEF ExtraInv
<1>s. Shape
  BY DEF PublishInv
<1>0. /\ job[j].extra \in Nat /\ job[j].extra <= Cardinality(Asked(j))
      /\ job[j] = [state |-> job[j].state, tries |-> job[j].tries, extra |-> job[j].extra]
  BY <1>s DEF ExtraInv, Shape, JobShape, JobType
<1>1. CASE job'[j].extra = job[j].extra /\ UNCHANGED control
  <2>1. Asked(j)' = Asked(j)
    BY <1>1 DEF Asked
  <2> QED
    BY <1>0, <1>1, <2>1
<1>2. ASSUME NEW c \in Callers, Publish(c)
      PROVE  job'[j].extra <= Cardinality(Asked(j)')
  <2>1. \/ job'[j] = job[j]
        \/ job'[j] = [state |-> "queued", tries |-> job[j].tries, extra |-> job[j].extra]
    BY <1>2, PublishMoves
  <2>2. UNCHANGED control
    BY <1>2, PublishMoves
  <2> QED
    BY <1>1, <2>1, <2>2
<1>3. ASSUME NEW i \in Ids, Work(i)
      PROVE  job'[j].extra <= Cardinality(Asked(j)')
  <2>1. CASE j # i
    BY <1>s, <1>1, <1>3, <2>1, WorkMoves
  <2>2. CASE j = i
    <3>1. JobMove(job[j], job'[j], AfterFailure(j)) /\ UNCHANGED control
      BY <1>s, <1>3, <2>2, WorkMoves
    <3>2. job'[j].extra = job[j].extra
      BY <3>1 DEF JobMove
    <3> QED
      BY <1>1, <3>1, <3>2
  <2> QED
    BY <2>1, <2>2
<1>4. ASSUME NEW x \in Controls, Operate(x)
      PROVE  job'[j].extra <= Cardinality(Asked(j)')
  <2>0. /\ control'[x] # "idle" /\ \A y \in Controls : y # x => control'[y] = control[y]
        /\ \/ job'[j].extra = job[j].extra
           \/ /\ job'[j].extra = job[j].extra + 1
              /\ Subject[x] = j /\ control[x] = "idle"
    <3>1. /\ \A y \in Controls : y # x => control'[y] = control[y]
          /\ j # Subject[x] => job'[j] = job[j]
          /\ \/ Cancels(x, Subject[x]) \/ Retries(x, Subject[x])
             \/ Writes(x, Subject[x]) \/ GivesUp(x, Subject[x])
      BY <1>s, <1>4, OperateMoves
    <3>2. control'[x] # "idle"
      BY <3>1 DEF Cancels, Retries, Writes, GivesUp
    <3>3. CASE j # Subject[x]
      BY <3>1, <3>2, <3>3
    <3>4. CASE j = Subject[x]
      BY <3>1, <3>2, <3>4 DEF Cancels, Retries, Writes, GivesUp
    <3> QED
      BY <3>3, <3>4
  <2>1. CASE Subject[x] = j /\ control[x] = "idle"
    <3>1. Asked(j)' = Asked(j) \cup {x} /\ x \notin Asked(j)
      BY <2>0, <2>1 DEF Asked
    <3>2. Cardinality(Asked(j)') = Cardinality(Asked(j)) + 1 /\ Cardinality(Asked(j)) \in Nat
      BY <3>1, AskedType, FS_AddElement
    <3>3. job'[j].extra \in {job[j].extra, job[j].extra + 1}
      BY <2>0
    <3> QED
      BY <1>0, <3>2, <3>3
  <2>2. CASE ~(Subject[x] = j /\ control[x] = "idle")
    <3>1. Asked(j)' = Asked(j)
      BY <2>0, <2>2 DEF Asked
    <3> QED
      BY <1>0, <2>0, <2>2, <3>1
  <2> QED
    BY <2>1, <2>2
<1> QED
  BY <1>1, <1>2, <1>3, <1>4 DEF Next, vars

LEMMA SoundPublish ==
  ASSUME PublishInv, JobBoundsInv, NEW c \in Callers, Publish(c), NEW j \in Ids, Sound(j)
  PROVE  Sound(j)'
<1>1. /\ UNCHANGED <<try, control, marks>>
      /\ \/ job'[j] = job[j]
         \/ /\ job[j].state = "unsent" /\ HasRow(j) /\ row'[j] = row[j]
            /\ job'[j] = [state |-> "queued", tries |-> job[j].tries, extra |-> job[j].extra]
      /\ \/ row'[j] = row[j]
         \/ row'[j] = NoRow /\ job'[j] = job[j]
         \/ /\ job[j].state = "unsent" /\ job'[j] = job[j]
            /\ row'[j] = [status |-> "QUEUED", attempts |-> 0]
  BY PublishMoves
<1>2. job[j].state = "unsent" => job[j].tries = 0
  BY DEF JobBoundsInv, JobBounds
<1>3. job[j].state = "unsent" => \A t \in 1 .. MaxTries : try[j][t] = "none"
  BY <1>2 DEF Sound, Begun
<1>4. job[j].state = "unsent" => Cardinality(Picked(j)) = 0
  <2>1. job[j].state = "unsent" => Picked(j) = {}
    BY <1>3 DEF Picked
  <2> QED
    BY <2>1, FS_EmptySet
<1>5. Picked(j)' = Picked(j) /\ job'[j].tries = job[j].tries
  BY <1>1 DEF Picked
<1>6. Begun(j)'
  BY <1>1, <1>5 DEF Sound, Begun
<1>7. Counted(j)'
  <2>1. CASE row'[j] = row[j]
    BY <1>1, <1>5, <2>1 DEF Sound, Counted, HasRow
  <2>2. CASE row'[j] = NoRow
    BY <2>2 DEF Counted, HasRow, NoRow
  <2>3. CASE job[j].state = "unsent" /\ row'[j] = [status |-> "QUEUED", attempts |-> 0]
    BY <1>2, <1>4, <1>5, <2>3 DEF Counted, HasRow
  <2> QED
    BY <1>1, <2>1, <2>2, <2>3
<1>8. Alone(j)'
  <2>1. CASE row'[j] = row[j]
    BY <1>1, <1>3, <2>1 DEF Sound, Alone, HasRow, AtWork
  <2>2. CASE row'[j] = NoRow /\ job'[j] = job[j]
    BY <1>1, <2>2 DEF Sound, Alone, HasRow, NoRow
  <2>3. CASE job[j].state = "unsent" /\ job'[j] = job[j]
    BY <1>1, <1>3, <2>3 DEF Alone, HasRow, AtWork
  <2> QED
    BY <1>1, <2>1, <2>2, <2>3
<1>9. Told(j)'
  <2>1. CASE row'[j] = row[j]
    BY <1>1, <1>3, <2>1 DEF Sound, Told, HasRow
  <2>2. CASE row'[j] = NoRow
    BY <2>2 DEF Told, HasRow, NoRow
  <2>3. CASE /\ job[j].state = "unsent" /\ job'[j] = job[j]
             /\ row'[j] = [status |-> "QUEUED", attempts |-> 0]
    BY <1>1, <1>2, <1>3, <2>3 DEF Told, Waits
  <2> QED
    BY <1>1, <2>1, <2>2, <2>3
<1> QED
  BY <1>6, <1>7, <1>8, <1>9 DEF Sound

\* A job that somebody has cancelled or retried is marked.
LEMMA MarkedOperate ==
  ASSUME Shape, ControlInv, NEW x \in Controls, Operate(x)
  PROVE  /\ marks[Subject[x]] \subseteq marks'[Subject[x]]
         /\ ~(marks'[Subject[x]] \subseteq {"lost"})
<1> DEFINE i == Subject[x]
<1>0. i \in Ids /\ marks \in [Ids -> SUBSET Marks]
  BY JobQueueAssumption DEF Shape, MarksShape
<1>1. CASE BossCancel(x)
  BY <1>0, <1>1 DEF BossCancel, Mark
<1>2. CASE BossRetry(x)
  BY <1>0, <1>2 DEF BossRetry, Mark
<1>3. CASE ControlRow(x) \/ ControlDies(x)
  <2>1. marks[i] \subseteq marks'[i]
    BY <1>0, <1>3 DEF ControlRow, ControlDies, Mark
  <2>2. control[x] \in {"cancel", "retry"}
    BY <1>3 DEF ControlRow, ControlDies
  <2> QED
    BY <2>1, <2>2 DEF ControlInv
<1> QED
  BY <1>1, <1>2, <1>3 DEF Operate

LEMMA SoundOperate ==
  ASSUME Shape, ControlInv, NEW x \in Controls, Operate(x), NEW j \in Ids, Sound(j)
  PROVE  Sound(j)'
<1>1. UNCHANGED try
  BY OperateMoves
<1>2. Picked(j)' = Picked(j)
  BY <1>1 DEF Picked
<1>3. CASE j # Subject[x]
  <2>1. job'[j] = job[j] /\ row'[j] = row[j] /\ marks'[j] = marks[j]
    BY <1>3, OperateMoves
  <2> QED
    BY <1>1, <1>2, <2>1 DEF Sound, Begun, Counted, Alone, Told, HasRow
<1>4. CASE j = Subject[x]
  <2>1. marks[j] \subseteq marks'[j] /\ ~(marks'[j] \subseteq {"lost"})
    BY <1>4, MarkedOperate
  <2>2. /\ job'[j].tries = job[j].tries /\ row'[j].attempts = row[j].attempts
        /\ HasRow(j)' <=> HasRow(j)
    <3>1. Cancels(x, j) \/ Retries(x, j) \/ Writes(x, j) \/ GivesUp(x, j)
      BY <1>4, OperateMoves
    <3>2. HasRow(j)' <=> HasRow(j)
      BY QuietOperate
    <3> QED
      BY <3>1, <3>2 DEF Cancels, Retries, Writes, GivesUp
  <2>3. Begun(j)'
    BY <1>1, <2>2 DEF Sound, Begun
  <2>4. Counted(j)'
    BY <1>2, <2>1, <2>2 DEF Sound, Counted
  <2>5. Alone(j)' /\ Told(j)'
    BY <2>1 DEF Alone, Told
  <2> QED
    BY <2>3, <2>4, <2>5 DEF Sound
<1> QED
  BY <1>3, <1>4

\* The tries, when one of them has gone on.
Went(j, t, pc) ==
  /\ try'[j][t] = pc
  /\ \A u \in 1 .. MaxTries : u # t => try'[j][u] = try[j][u]

LEMMA BegunStays ==
  ASSUME MaxTries \in Nat, NEW j \in Ids, NEW t \in 1 .. MaxTries, NEW pc, Went(j, t, pc),
         Begun(j), try[j][t] # "none", job'[j].tries = job[j].tries
  PROVE  Begun(j)'
BY DEF Begun, Went

\* What the work on a job does to it and to its tries.
LEMMA SoundPickUp ==
  ASSUME Shape, JobBoundsInv, ExtraInv, NEW j \in Ids, PickUp(j), Sound(j)
  PROVE  Sound(j)'
<1> DEFINE t == job[j].tries + 1
<1>0. /\ job[j].tries \in Nat /\ MaxTries \in Nat /\ t \in 1 .. MaxTries
      /\ t - 1 = job[j].tries /\ t > job[j].tries
  BY TryLeft, MaxTriesType DEF PickUp
<1>1. /\ job[j].state = "queued" /\ UNCHANGED <<row, marks>>
      /\ job'[j] = [state |-> "active", tries |-> t, extra |-> job[j].extra]
      /\ TryGoes(j, t, "picked")
  BY DEF PickUp, Shape, JobShape
<1>2. try[j][t] = "none"
  BY <1>0 DEF Sound, Begun
<1> HIDE DEF t
<1>3. /\ try'[j][t] = "picked"
      /\ \A u \in 1 .. MaxTries : u # t => try'[j][u] = try[j][u]
  BY <1>0, <1>1, TryUpdate DEF Shape
<1>4. Cardinality(Picked(j)') = Cardinality(Picked(j)) + 1 /\ Cardinality(Picked(j)) \in Nat
  BY <1>0, <1>1, <1>2, PickedStep, PickedType DEF Shape
<1>5. Begun(j)'
  BY <1>0, <1>1, <1>3 DEF Sound, Begun, t
<1>6. Counted(j)'
  <2>1. row[j].attempts \in Nat
    BY DEF Shape, RowShape, RowType
  <2> QED
    BY <1>0, <1>1, <1>4, <2>1 DEF Sound, Counted, HasRow, t
<1>7. Alone(j)'
  BY <1>1, <1>3 DEF Sound, Alone, HasRow, AtWork
<1>8. Told(j)'
  <2>1. marks[j] = {} => \A u \in 1 .. MaxTries : try[j][u] \notin AtWork
    BY <1>1 DEF Sound, Alone
  <2>2. marks[j] = {} /\ HasRow(j) => row[j].status = Waits(t - 1)
    BY <1>0, <1>1 DEF Sound, Told
  <2> QED
    BY <1>0, <1>1, <1>3, <2>1, <2>2 DEF Told, HasRow, AtWork
<1> QED
  BY <1>5, <1>6, <1>7, <1>8 DEF Sound

LEMMA SoundStart ==
  ASSUME Shape, NEW j \in Ids, NEW t \in 1 .. MaxTries, Start(j, t), Sound(j)
  PROVE  Sound(j)'
<1>0. MaxTries \in Nat /\ row[j].attempts \in Nat
  BY MaxTriesType DEF Shape, RowShape, RowType
<1>1. /\ try[j][t] = "picked" /\ HasRow(j) /\ UNCHANGED <<job, marks>>
      /\ row'[j] = [status |-> "RUNNING", attempts |-> row[j].attempts + 1]
      /\ TryGoes(j, t, "running")
  BY DEF Start, Started, Shape, RowShape
<1>2. Went(j, t, "running")
  BY <1>1, TryUpdate DEF Shape, Went
<1>3. Cardinality(Picked(j)') = Cardinality(Picked(j)) - 1 /\ Cardinality(Picked(j)) \in Nat
  BY <1>1, PickedStep, PickedType DEF Shape
<1>4. Begun(j)'
  BY <1>0, <1>1, <1>2, BegunStays DEF Sound
<1>5. Counted(j)'
  <2>1. job[j].tries \in Nat
    BY DEF Shape, JobShape, JobType
  <2> QED
    BY <1>0, <1>1, <1>3, <2>1 DEF Sound, Counted, HasRow
<1>6. marks[j] \subseteq {"lost"} =>
        /\ job[j].state = "active" /\ job[j].tries = t
        /\ \A u \in 1 .. MaxTries : u # t => try[j][u] \notin AtWork
  BY <1>1 DEF Sound, Alone, AtWork
<1>7. Alone(j)'
  BY <1>1, <1>2, <1>6 DEF Alone, AtWork, Went
<1>8. Told(j)'
  BY <1>1, <1>2, <1>6 DEF Told, AtWork, Went
<1> QED
  BY <1>4, <1>5, <1>7, <1>8 DEF Sound

LEMMA SoundTaskEnds ==
  ASSUME Shape, NEW j \in Ids, NEW t \in 1 .. MaxTries, TaskEnds(j, t), Sound(j)
  PROVE  Sound(j)'
<1>0. MaxTries \in Nat
  BY MaxTriesType
<1>1. PICK end \in {"returned", "threw"} :
        try[j][t] = "running" /\ UNCHANGED <<row, job, marks>> /\ TryGoes(j, t, end)
  BY DEF TaskEnds
<1>2. Went(j, t, end)
  BY <1>1, TryUpdate DEF Shape, Went
<1>3. Cardinality(Picked(j)') = Cardinality(Picked(j))
  BY <1>1, PickedStep DEF Shape
<1>4. Begun(j)'
  BY <1>0, <1>1, <1>2, BegunStays DEF Sound
<1>5. Counted(j)'
  BY <1>1, <1>3 DEF Sound, Counted, HasRow
<1>6. Alone(j)'
  BY <1>1, <1>2 DEF Sound, Alone, AtWork, HasRow, Went
<1>7. Told(j)'
  BY <1>1, <1>2 DEF Sound, Told, AtWork, HasRow, Went
<1> QED
  BY <1>4, <1>5, <1>6, <1>7 DEF Sound

LEMMA SoundFinish ==
  ASSUME Shape, NEW j \in Ids, NEW t \in 1 .. MaxTries, Finish(j, t), Sound(j)
  PROVE  Sound(j)'
<1>0. MaxTries \in Nat
  BY MaxTriesType
<1> DEFINE pc == IF try[j][t] = "returned" THEN "acks" ELSE "nacks"
<1>1. /\ try[j][t] \in {"returned", "threw"} /\ HasRow(j) /\ UNCHANGED <<job, marks>>
      /\ row'[j] = [status |-> Ending(j, t), attempts |-> row[j].attempts]
      /\ TryGoes(j, t, pc)
  BY DEF Finish, Shape, RowShape, RowType
<1>2. /\ pc = "acks" => Ending(j, t) = "COMPLETED"
      /\ pc = "nacks" => Ending(j, t) = "FAILED"
      /\ pc \in {"acks", "nacks"}
  BY DEF Ending
<1> HIDE DEF pc
<1>3. Went(j, t, pc)
  BY <1>1, TryUpdate DEF Shape, Went
<1>4. Cardinality(Picked(j)') = Cardinality(Picked(j))
  BY <1>1, <1>2, PickedStep DEF Shape
<1>5. Begun(j)'
  BY <1>0, <1>1, <1>3, BegunStays DEF Sound
<1>6. Counted(j)'
  BY <1>1, <1>4 DEF Sound, Counted, HasRow, Ending
<1>7. marks[j] \subseteq {"lost"} =>
        /\ job[j].state = "active" /\ job[j].tries = t
        /\ \A u \in 1 .. MaxTries : u # t => try[j][u] \notin AtWork
  BY <1>1 DEF Sound, Alone, AtWork
<1>8. Alone(j)'
  BY <1>1, <1>2, <1>3, <1>7 DEF Alone, AtWork, Went
<1>9. Told(j)'
  BY <1>1, <1>2, <1>3, <1>7 DEF Told, AtWork, Went
<1> QED
  BY <1>5, <1>6, <1>8, <1>9 DEF Sound

LEMMA SoundUpdateFails ==
  ASSUME Shape, NEW j \in Ids, NEW t \in 1 .. MaxTries, UpdateFails(j, t), Sound(j)
  PROVE  Sound(j)'
<1>0. /\ MaxTries \in Nat /\ row[j].attempts \in Nat /\ job[j].tries \in Nat
      /\ Cardinality(Picked(j)) \in Nat
  BY MaxTriesType, PickedType DEF Shape, RowShape, RowType, JobShape, JobType
<1> DEFINE pc == IF try[j][t] = "returned" THEN "threw" ELSE "nacks"
<1>1. /\ try[j][t] \in {"picked", "returned", "threw"} /\ UNCHANGED <<row, job>>
      /\ \/ ~HasRow(j) /\ marks'[j] = marks[j]
         \/ HasRow(j) /\ marks'[j] = marks[j] \cup {"lost"}
      /\ TryGoes(j, t, pc)
  BY DEF UpdateFails, Mark, Shape, MarksShape
<1>2. pc \in {"threw", "nacks"}
  OBVIOUS
<1> HIDE DEF pc
<1>3. Went(j, t, pc)
  BY <1>1, TryUpdate DEF Shape, Went
<1>4. /\ Cardinality(Picked(j)') \in {Cardinality(Picked(j)), Cardinality(Picked(j)) - 1}
  BY <1>1, <1>2, PickedStep DEF Shape
<1>5. Begun(j)'
  BY <1>0, <1>1, <1>3, BegunStays DEF Sound
<1>6. Counted(j)'
  BY <1>0, <1>1, <1>4 DEF Sound, Counted, HasRow
<1>7. Alone(j)'
  BY <1>1, <1>2, <1>3 DEF Sound, Alone, AtWork, HasRow, Went
<1>8. Told(j)'
  BY <1>1 DEF Told, HasRow
<1> QED
  BY <1>5, <1>6, <1>7, <1>8 DEF Sound

LEMMA SoundReport ==
  ASSUME Shape, NEW j \in Ids, NEW t \in 1 .. MaxTries, Report(j, t), Sound(j)
  PROVE  Sound(j)'
<1>0. MaxTries \in Nat
  BY MaxTriesType
<1>1. /\ try[j][t] \in {"acks", "nacks"} /\ UNCHANGED <<row, marks>>
      /\ TryGoes(j, t, "over")
  BY DEF Report
<1>2. \/ ~IsCurrent(j, t) /\ job'[j] = job[j]
      \/ /\ IsCurrent(j, t) /\ job'[j].tries = job[j].tries
         /\ \/ try[j][t] = "nacks" /\ job'[j].state \in {"queued", "failed"}
            \/ try[j][t] = "acks" /\ job'[j].state = "completed"
  BY DEF Report, TryFailed, AfterFailure, Shape, JobShape, JobType
<1>3. Went(j, t, "over")
  BY <1>1, TryUpdate DEF Shape, Went
<1>4. Cardinality(Picked(j)') = Cardinality(Picked(j))
  BY <1>1, PickedStep DEF Shape
<1>5. Begun(j)'
  BY <1>0, <1>1, <1>2, <1>3, BegunStays DEF Sound
<1>6. Counted(j)'
  BY <1>1, <1>2, <1>4 DEF Sound, Counted, HasRow
<1>7. marks[j] \subseteq {"lost"} =>
        /\ IsCurrent(j, t)
        /\ \A u \in 1 .. MaxTries : u # t => try[j][u] \notin AtWork
        /\ HasRow(j) /\ try[j][t] = "acks" => row[j].status = "COMPLETED"
  BY <1>1 DEF Sound, Alone, AtWork, IsCurrent
<1>8. Alone(j)'
  BY <1>1, <1>2, <1>3, <1>7 DEF Alone, AtWork, HasRow, Went
<1>9. Told(j)'
  <2>1. marks[j] = {} /\ HasRow(j) /\ try[j][t] = "nacks"
          => row[j].status = "FAILED" /\ Waits(job[j].tries) = "FAILED"
    BY <1>0, <1>7 DEF Sound, Told, IsCurrent, Waits
  <2> QED
    BY <1>1, <1>2, <1>3, <1>7, <2>1 DEF Told, AtWork, HasRow, Went
<1> QED
  BY <1>5, <1>6, <1>8, <1>9 DEF Sound

LEMMA SoundCrash ==
  ASSUME Shape, NEW j \in Ids, NEW t \in 1 .. MaxTries, Crash(j, t), Sound(j)
  PROVE  Sound(j)'
<1>0. /\ MaxTries \in Nat /\ row[j].attempts \in Nat /\ job[j].tries \in Nat
      /\ Cardinality(Picked(j)) \in Nat
  BY MaxTriesType, PickedType DEF Shape, RowShape, RowType, JobShape, JobType
<1>1. /\ try[j][t] \in AtWork /\ UNCHANGED <<row, job>>
      /\ marks'[j] = marks[j] \cup {"lost"} /\ TryGoes(j, t, "over")
  BY DEF Crash, Mark, Shape, MarksShape
<1>2. Went(j, t, "over")
  BY <1>1, TryUpdate DEF Shape, Went
<1>3. Cardinality(Picked(j)') \in {Cardinality(Picked(j)), Cardinality(Picked(j)) - 1}
  BY <1>1, PickedStep DEF Shape
<1>4. Begun(j)'
  BY <1>0, <1>1, <1>2, BegunStays DEF Sound, AtWork
<1>5. Counted(j)'
  BY <1>0, <1>1, <1>3 DEF Sound, Counted, HasRow
<1>6. Alone(j)'
  BY <1>1, <1>2 DEF Sound, Alone, AtWork, HasRow, Went
<1>7. Told(j)'
  BY <1>1 DEF Told
<1> QED
  BY <1>4, <1>5, <1>6, <1>7 DEF Sound

LEMMA SoundReap ==
  ASSUME Shape, NEW j \in Ids, Reap(j) \/ Expire(j), Sound(j)
  PROVE  Sound(j)'
<1>1. /\ UNCHANGED <<try, row>>
      /\ job[j].state = "active" /\ job'[j].tries = job[j].tries
      /\ job'[j].state \in {"queued", "failed"}
      /\ marks[j] \subseteq marks'[j]
  BY DEF Reap, Expire, TryFailed, AfterFailure, IsCurrent, Mark, Shape, JobShape, JobType,
         MarksShape
<1>2. \/ "late" \in marks'[j]
      \/ /\ marks'[j] = marks[j]
         /\ \E t \in 1 .. MaxTries : job[j].tries = t /\ try[j][t] = "over"
  BY DEF Reap, Expire, IsCurrent, Mark, Shape, MarksShape
<1>3. Picked(j)' = Picked(j)
  BY <1>1 DEF Picked
<1>4. Begun(j)'
  BY <1>1 DEF Sound, Begun
<1>5. Counted(j)'
  BY <1>1, <1>3 DEF Sound, Counted, HasRow
<1>6. Alone(j)'
  BY <1>1, <1>2 DEF Sound, Alone, AtWork, HasRow
<1>7. Told(j)'
  BY <1>1, <1>2 DEF Sound, Told, AtWork, HasRow
<1> QED
  BY <1>4, <1>5, <1>6, <1>7 DEF Sound

LEMMA SoundWork ==
  ASSUME Shape, JobBoundsInv, ExtraInv, NEW i \in Ids, Work(i), NEW j \in Ids, Sound(j)
  PROVE  Sound(j)'
<1>1. CASE j # i
  <2>1. job'[j] = job[j] /\ row'[j] = row[j] /\ marks'[j] = marks[j] /\ try'[j] = try[j]
    BY <1>1, WorkMoves
  <2>2. Picked(j)' = Picked(j)
    BY <2>1 DEF Picked
  <2> QED
    BY <2>1, <2>2 DEF Sound, Begun, Counted, Alone, Told, HasRow
<1>2. CASE j = i
  <2>1. CASE PickUp(j)
    BY <2>1, SoundPickUp
  <2>2. CASE Reap(j) \/ Expire(j)
    BY <2>2, SoundReap
  <2>3. CASE \E t \in 1 .. MaxTries : Handle(j, t) \/ Crash(j, t)
    BY <2>3, SoundStart, SoundTaskEnds, SoundFinish, SoundUpdateFails, SoundReport, SoundCrash
       DEF Handle
  <2> QED
    BY <1>2, <2>1, <2>2, <2>3 DEF Work
<1> QED
  BY <1>1, <1>2

LEMMA ControlStep == Shape /\ ControlInv /\ [Next]_vars => ControlInv'
<1> SUFFICES ASSUME Shape, ControlInv, [Next]_vars, NEW y \in Controls,
                    control'[y] \in {"cancel", "retry"}
             PROVE  ~(marks'[Subject[y]] \subseteq {"lost"})
  BY DEF ControlInv
<1>0. Subject[y] \in Ids
  BY JobQueueAssumption
<1>1. CASE control'[y] = control[y] /\ marks[Subject[y]] \subseteq marks'[Subject[y]]
  BY <1>1 DEF ControlInv
<1>2. CASE UNCHANGED <<control, marks>>
  BY <1>1, <1>2
<1>3. ASSUME NEW c \in Callers, Publish(c)
      PROVE  UNCHANGED <<control, marks>>
  BY <1>3 DEF Publish, ReserveRow, ReserveFails, Find, FindFails, Send, SendFails, Withdraw,
              CallerDies, queueSide
<1>4. ASSUME NEW i \in Ids, Work(i)
      PROVE  ~(marks'[Subject[y]] \subseteq {"lost"})
  <2>1. marks[Subject[y]] \subseteq marks'[Subject[y]] /\ UNCHANGED control
    BY <1>0, <1>4, WorkMoves
  <2> QED
    BY <1>1, <2>1
<1>5. ASSUME NEW x \in Controls, Operate(x)
      PROVE  ~(marks'[Subject[y]] \subseteq {"lost"})
  <2>1. CASE Subject[x] = Subject[y]
    BY <1>5, <2>1, MarkedOperate
  <2>2. CASE Subject[x] # Subject[y]
    <3>1. control'[y] = control[y] /\ marks'[Subject[y]] = marks[Subject[y]]
      BY <1>0, <1>5, <2>2, OperateMoves
    <3> QED
      BY <1>1, <3>1
  <2> QED
    BY <2>1, <2>2
<1> QED
  BY <1>2, <1>3, <1>4, <1>5 DEF Next, vars

LEMMA InitTries == Init => TriesInv
<1> SUFFICES ASSUME Init PROVE TriesInv
  OBVIOUS
<1>1. ControlInv
  BY DEF Init, ControlInv
<1> SUFFICES ASSUME NEW j \in Ids PROVE job[j].extra <= Cardinality(Asked(j)) /\ Sound(j)
  BY <1>1 DEF TriesInv, ExtraInv
<1>2. /\ job[j] = Unsent /\ row[j] = NoRow
      /\ \A t \in 1 .. MaxTries : try[j][t] = "none"
  BY DEF Init
<1>3. Cardinality(Asked(j)) \in Nat
  BY AskedType
<1>4. job[j].extra <= Cardinality(Asked(j))
  BY <1>2, <1>3 DEF Unsent
<1>5. Begun(j) /\ Counted(j) /\ Alone(j) /\ Told(j)
  BY <1>2 DEF Begun, Counted, Alone, Told, Unsent, NoRow, HasRow, AtWork
<1> QED
  BY <1>4, <1>5 DEF Sound

LEMMA TriesStep == PublishInv /\ JobBoundsInv /\ TriesInv /\ [Next]_vars => TriesInv'
<1> SUFFICES ASSUME PublishInv, JobBoundsInv, TriesInv, [Next]_vars PROVE TriesInv'
  OBVIOUS
<1>s. Shape /\ ExtraInv /\ ControlInv
  BY DEF PublishInv, TriesInv
<1>1. ExtraInv' /\ ControlInv'
  BY <1>s, ExtraStep, ControlStep
<1>2. ASSUME NEW j \in Ids PROVE Sound(j)'
  <2>0. Sound(j)
    BY DEF TriesInv
  <2>1. CASE UNCHANGED vars
    <3>1. Picked(j)' = Picked(j)
      BY <2>1 DEF Picked, vars
    <3> QED
      BY <2>0, <2>1, <3>1 DEF vars, Sound, Begun, Counted, Alone, Told, HasRow
  <2>2. ASSUME NEW c \in Callers, Publish(c) PROVE Sound(j)'
    BY <2>0, <2>2, SoundPublish
  <2>3. ASSUME NEW i \in Ids, Work(i) PROVE Sound(j)'
    BY <1>s, <2>0, <2>3, SoundWork
  <2>4. ASSUME NEW x \in Controls, Operate(x) PROVE Sound(j)'
    BY <1>s, <2>0, <2>4, SoundOperate
  <2> QED
    BY <2>1, <2>2, <2>3, <2>4 DEF Next
<1> QED
  BY <1>1, <1>2 DEF TriesInv

LEMMA TriesInvariant == Spec => [](PublishInv /\ JobBoundsInv /\ TriesInv)
<1>1. Init => JobBoundsInv
  BY RetryLimitAssumption DEF Init, JobBoundsInv, JobBounds, Unsent
<1>2. JobBoundsInv /\ PublishInv /\ [Next]_vars => JobBoundsInv'
  BY BoundsStep
<1> QED
  BY <1>1, <1>2, PublishInvariant, InitTries, TriesStep, PTL DEF Spec

\* Every payload of a bulk call gets a job of its own: it has a key of its own, and
\* what it is answered with is a job of its key.
THEOREM BulkIsSplit == Spec => []BulkIsNotMerged
<1>1. ASSUME PublishInv PROVE BulkIsNotMerged
  <2> SUFFICES ASSUME NEW j \in Ids, NEW l \in Ids, j[1] = l[1], j # l,
                      answer[j] # NoAnswer, answer[j] = answer[l]
               PROVE  FALSE
    BY DEF BulkIsNotMerged
  <2>1. KeyOf[j] = KeyOf[l]
    BY <1>1, AnswersFollow DEF AnswersStand
  <2>2. /\ j[1] \in Callers /\ j[2] \in 1 .. Items[j[1]] /\ j = <<j[1], j[2]>>
        /\ l[2] \in 1 .. Items[j[1]] /\ l = <<j[1], l[2]>>
    BY IdParts
  <2>3. CASE j[1] \in Bulk
    BY <2>1, <2>2, <2>3 DEF KeyOf
  <2>4. CASE j[1] \notin Bulk
    BY <2>2, <2>4, JobQueueAssumption
  <2> QED
    BY <2>3, <2>4
<1> QED
  BY <1>1, PublishInvariant, PTL

\* The attempts that a row counts are the tries that pg-boss has begun, but for
\* those whose first update has yet to come, or was lost.
THEOREM AttemptsAreCounted == Spec => []AttemptsAreTries
<1>1. TriesInv => AttemptsAreTries
  BY DEF TriesInv, Sound, Counted, AttemptsAreTries, Picked
<1> QED
  BY <1>1, TriesInvariant, PTL

\* When nothing came in between, the row tells what pg-boss knows of the job.
THEOREM StatusTells == Spec => []StatusAgrees
<1>1. ASSUME PublishInv, JobBoundsInv, TriesInv, NEW j \in Ids, HasRow(j)
      PROVE  /\ marks[j] = {} =>
                  /\ row[j].status = "RUNNING" <=> Executes(j)
                  /\ job[j].state = "queued" =>
                       row[j].status = IF job[j].tries = 0 THEN "QUEUED" ELSE "FAILED"
                  /\ job[j].state = "failed" => row[j].status = "FAILED"
             /\ marks[j] \subseteq {"lost"} /\ job[j].state = "completed"
                  => row[j].status = "COMPLETED"
  <2>1. Alone(j) /\ Told(j) /\ job[j].state \in States /\ try[j] \in [1 .. MaxTries -> TrySteps]
    BY <1>1 DEF TriesInv, Sound, PublishInv, Shape, JobShape, JobType, TryShape
  <2>2. marks[j] = {} => (row[j].status = "RUNNING" <=> Executes(j))
    <3>1. CASE job[j].state = "active"
      BY <1>1, <2>1, <3>1 DEF Alone, Told, Executes, Waits, AtWork
    <3>2. CASE job[j].state # "active"
      BY <1>1, <2>1, <3>2 DEF Alone, Told, Executes, Waits, AtWork, States, Terminal
    <3> QED
      BY <3>1, <3>2
  <2>3. marks[j] = {} =>
          /\ job[j].state = "queued" =>
               row[j].status = IF job[j].tries = 0 THEN "QUEUED" ELSE "FAILED"
          /\ job[j].state = "failed" => row[j].status = "FAILED"
    BY <1>1, <2>1 DEF Told, Waits
  <2>4. marks[j] \subseteq {"lost"} /\ job[j].state = "completed"
          => row[j].status = "COMPLETED"
    BY <1>1, <2>1 DEF Alone
  <2> QED
    BY <2>2, <2>3, <2>4
<1>2. PublishInv /\ JobBoundsInv /\ TriesInv => StatusAgrees
  BY <1>1 DEF StatusAgrees
<1> QED
  BY <1>2, TriesInvariant, PTL

\* Every variable keeps to its type.  A job is tried at most once more than it may be
\* retried, and once again for every retry that somebody asked for.
THEOREM QueueTypes == Spec => []TypeOK
<1>1. ASSUME PublishInv, JobBoundsInv, TriesInv PROVE TypeOK
  <2>1. Shape /\ MaxTries \in Nat /\ Cardinality(Controls) \in Nat
    BY <1>1, MaxTriesType DEF PublishInv
  <2>2. \A j \in Ids : /\ job[j].tries \in 0 .. MaxTries
                       /\ job[j].extra \in 0 .. Cardinality(Controls)
    <3> SUFFICES ASSUME NEW j \in Ids
                 PROVE  /\ job[j].tries \in 0 .. MaxTries
                        /\ job[j].extra \in 0 .. Cardinality(Controls)
      OBVIOUS
    <3>1. job[j].tries \in 0 .. MaxTries
      BY <1>1, <2>1, TryLeft DEF TriesInv
    <3>2. job[j].extra \in Nat /\ job[j].extra <= Cardinality(Asked(j))
      BY <1>1, <2>1 DEF TriesInv, ExtraInv, Shape, JobShape, JobType
    <3> QED
      BY <2>1, <3>1, <3>2, AskedType
  <2>3. \A j \in Ids : row[j].attempts \in 0 .. MaxTries
    <3> SUFFICES ASSUME NEW j \in Ids PROVE row[j].attempts \in 0 .. MaxTries
      OBVIOUS
    <3>1. /\ row[j].attempts \in Nat /\ job[j].tries \in 0 .. MaxTries
          /\ Cardinality(Picked(j)) \in Nat
      BY <2>1, <2>2, PickedType DEF Shape, RowShape, RowType
    <3>2. Counted(j)
      BY <1>1 DEF TriesInv, Sound
    <3> QED
      BY <2>1, <3>1, <3>2 DEF Counted
  <2>4. row \in [Ids -> [status : Statuses \cup {"NONE"}, attempts : 0 .. MaxTries]]
    BY <2>1, <2>3 DEF Shape, RowShape, RowType
  <2>5. job \in [Ids -> [state : {"unsent", "queued", "active"} \cup Terminal,
                         tries : 0 .. MaxTries, extra : 0 .. Cardinality(Controls)]]
    BY <2>1, <2>2 DEF Shape, JobShape, JobType, States
  <2>6. try \in [Ids -> [1 .. MaxTries -> AtWork \cup {"none", "over"}]]
    BY <2>1 DEF Shape, TryShape, TrySteps
  <2>7. \A c \in Callers : /\ call[c].at \in 1 .. Items[c]
                           /\ call[c].pc \in {"reserve", "find", "send", "withdraw",
                                              "returned", "threw", "gone"}
    BY <2>1 DEF Shape, CallShape, CallSteps
  <2> QED
    BY <2>1, <2>4, <2>5, <2>6, <2>7
       DEF TypeOK, Shape, AnswerShape, ControlShape, MarksShape, FaultsShape
<1> QED
  BY <1>1, TriesInvariant, PTL
=============================================================================
