-------------------------- MODULE PublicationProofs --------------------------
(***************************************************************************)
(* Proofs about publication, for any number of tasks, alerts, consumers    *)
(* and SSE connections, and with failed calls, cancellations and restarts  *)
(* anywhere.                                                               *)
(***************************************************************************)
EXTENDS Publication, EventStoreProofs, FiniteSetTheorems, SequenceTheorems

-----------------------------------------------------------------------------
(* Control: the stacks of the tasks, the events they are about, the locks. *)

\* What a publication does before anybody but the store and the history has seen it.
Early == {"save", "journal", "wake"}
Holding == {"fresh", "record"}

Bottom(p) == task[p][Len(task[p])]

\* A task works on an event of its own making and, from inside its evaluation, on the
\* trigger of the alert it is about to record.
StackOK(p) ==
    /\ task[p] \in Seq(Frame) /\ Len(task[p]) <= 2
    /\ \A k \in 1..Len(task[p]) :
          /\ task[p][k].id \in Id
          /\ task[p][k].pc \in {"lock", "fresh", "record"} => task[p][k].alert \in Alert
          /\ task[p][k].pc = "save" => events[task[p][k].id].persistent
    /\ Len(task[p]) > 0 => events[Bottom(p).id].alert = None
    /\ Len(task[p]) = 2 =>
          /\ task[p][1].pc \in Early /\ task[p][2].pc = "record"
          /\ events[task[p][1].id].alert = task[p][2].alert

EventsOK ==
    /\ events \in Seq(Event)
    /\ \A n \in Id : events[n].cause < n /\ (events[n].alert # None => events[n].persistent)

\* No two publications under way are of one event.
OnceOnly ==
    \A p, q \in Task : \A k \in 1..Len(task[p]), l \in 1..Len(task[q]) :
        task[p][k].id = task[q][l].id => p = q /\ k = l

\* An alert's lock is held by the task whose evaluation has reached it, and by no other.
Holds(p, a) == Len(task[p]) > 0 /\ Bottom(p).pc \in Holding /\ Bottom(p).alert = a

LocksOK ==
    /\ lock \in [Alert -> Task \cup {None}]
    /\ \A p \in Task, a \in Alert : lock[a] = p <=> Holds(p, a)

\* An event has caused nothing before its publication has reached its evaluation.
EarlyAt(p) == Len(task[p]) > 0 /\ task[p][1].pc \in Early

CausesSettled ==
    \A p \in Task : EarlyAt(p) => \A n \in Id : events[n].cause # task[p][1].id

Control ==
    /\ EventsOK
    /\ task \in [Task -> Seq(Frame)] /\ \A p \in Task : StackOK(p)
    /\ OnceOnly /\ LocksOK /\ CausesSettled

\* Events are only added, and keep all but their sequence.
EventsKeep ==
    /\ EventsOK' /\ Len(events') >= Len(events)
    /\ \A n \in Id : /\ events'[n].alert = events[n].alert
                     /\ events'[n].cause = events[n].cause
                     /\ events'[n].routing = events[n].routing
                     /\ events'[n].persistent = events[n].persistent

\* What one task may do to its stack: its publications are those it had or of new
\* events, none goes back to before its broadcast, and it holds the locks it should.
LEMMA ControlStep ==
    ASSUME Control, EventsKeep, NEW p \in Task, NEW s \in Seq(Frame),
           task' = [task EXCEPT ![p] = s], StackOK(p)',
           \A k \in 1..Len(s) :
               \/ s[k].id > Len(events)
               \/ \E j \in 1..Len(task[p]) : s[k].id = task[p][j].id,
           Len(s) = 2 => s[1].id # s[2].id,
           lock' \in [Alert -> Task \cup {None}],
           \A a \in Alert : lock'[a] = p <=> Holds(p, a)',
           \A a \in Alert, q \in Task : q # p => (lock'[a] = q <=> lock[a] = q),
           EarlyAt(p)' =>
               \/ s[1].id > Len(events)
               \/ EarlyAt(p) /\ s[1].id = task[p][1].id,
           \A n \in Id' : n > Len(events) =>
               events'[n].cause = 0 \/ (Len(task[p]) > 0 /\ ~EarlyAt(p) /\ events'[n].cause = task[p][1].id)
    PROVE  Control'
<1> USE DEF Control
<1>1. task'[p] = s /\ \A q \in Task : q # p => task'[q] = task[q]
  OBVIOUS
<1>2. Len(events) \in Nat /\ Len(events') \in Nat /\ Id \subseteq Id'
  BY DEF EventsOK, EventsKeep, Id
<1>3. \A q \in Task : StackOK(q)'
  <2> SUFFICES ASSUME NEW q \in Task, q # p PROVE StackOK(q)'
    OBVIOUS
  <2>1. task'[q] = task[q] /\ StackOK(q)
    BY <1>1
  <2>2. \A k \in 1..Len(task[q]) :
           /\ task[q][k].id \in Id
           /\ events'[task[q][k].id].alert = events[task[q][k].id].alert
           /\ events'[task[q][k].id].persistent = events[task[q][k].id].persistent
    BY <2>1 DEF StackOK, EventsKeep
  <2>3. /\ Len(task[q]) \in Nat /\ Len(task[q]) <= 2
        /\ Len(task[q]) > 0 => Len(task[q]) \in 1..Len(task[q]) /\ 1 \in 1..Len(task[q])
    BY <2>1 DEF StackOK
  <2>4. \A k \in 1..Len(task[q]) :
           /\ task[q][k].id \in Id'
           /\ task[q][k].pc \in {"lock", "fresh", "record"} => task[q][k].alert \in Alert
           /\ task[q][k].pc = "save" => events'[task[q][k].id].persistent
    BY <1>2, <2>1, <2>2 DEF StackOK
  <2>5. Len(task[q]) > 0 => events'[Bottom(q).id].alert = None
    BY <2>1, <2>2, <2>3 DEF StackOK, Bottom
  <2>6. Len(task[q]) = 2 =>
          /\ task[q][1].pc \in Early /\ task[q][2].pc = "record"
          /\ events'[task[q][1].id].alert = task[q][2].alert
    <3>1. Len(task[q]) = 2 => /\ task[q][1].pc \in Early /\ task[q][2].pc = "record"
                              /\ events[task[q][1].id].alert = task[q][2].alert
      BY <2>1 DEF StackOK
    <3>2. Len(task[q]) = 2 => 1 \in 1..Len(task[q])
      BY <2>3
    <3> QED
      BY <2>2, <3>1, <3>2
  <2>7. task[q] \in Seq(Frame)
    OBVIOUS
  <2> QED
    BY <2>1, <2>3, <2>4, <2>5, <2>6, <2>7 DEF StackOK, Bottom
<1>4. OnceOnly'
  <2>1. \A q \in Task : \A l \in 1..Len(task[q]) : task[q][l].id \in Id /\ task[q][l].id <= Len(events)
    BY DEF StackOK, Id, EventsOK
  <2>2. Len(s) <= 2 /\ Len(s) \in Nat
    <3>1. Len(s) <= 2
      BY <1>1 DEF StackOK
    <3> QED
      BY <3>1
  <2>3. \A k, l \in 1..Len(s) : s[k].id = s[l].id => k = l
    <3>1. PICK n \in Nat : n = Len(s) /\ n <= 2
      BY <2>2
    <3>2. \A k, l \in 1..n : k # l => n = 2 /\ ((k = 1 /\ l = 2) \/ (k = 2 /\ l = 1))
      BY <3>1
    <3> QED
      BY <3>1, <3>2
  <2>4. ASSUME NEW q \in Task, q # p, NEW k \in 1..Len(s), NEW l \in 1..Len(task[q])
        PROVE  s[k].id # task[q][l].id
    <3>1. CASE s[k].id > Len(events)
      BY <1>2, <2>1, <3>1 DEF Id
    <3>2. ASSUME NEW j \in 1..Len(task[p]), s[k].id = task[p][j].id
          PROVE  s[k].id # task[q][l].id
      BY <2>4, <3>2 DEF OnceOnly
    <3> QED
      BY <3>1, <3>2
  <2> QED
    BY <1>1, <2>3, <2>4 DEF OnceOnly
<1>5. LocksOK'
  BY <1>1 DEF LocksOK, Holds, Bottom
<1>6. CausesSettled'
  <2> SUFFICES ASSUME NEW q \in Task, EarlyAt(q)', NEW n \in Id'
               PROVE  events'[n].cause # task'[q][1].id
    BY DEF CausesSettled
  <2>1. \A r \in Task : Len(task[r]) > 0 => 1 \in 1..Len(task[r]) /\ task[r][1].id \in Id
    BY DEF StackOK
  <2>2. n \in Id \/ (n \in Nat /\ n > Len(events))
    BY <1>2 DEF Id
  <2>3. CASE q # p
    <3>1. EarlyAt(q) /\ task'[q] = task[q] /\ task[q][1].id \in Id
      BY <1>1, <2>1, <2>3 DEF EarlyAt
    <3>2. Len(task[p]) > 0 => task[p][1].id # task[q][1].id
      BY <2>1, <2>3, <3>1 DEF OnceOnly, EarlyAt
    <3> QED
      BY <1>2, <2>2, <3>1, <3>2 DEF CausesSettled, EventsKeep, Id
  <2>4. CASE q = p /\ EarlyAt(p) /\ s[1].id = task[p][1].id
    BY <1>1, <1>2, <2>1, <2>2, <2>4 DEF CausesSettled, EventsKeep, EarlyAt, Id
  <2>5. CASE q = p /\ s[1].id > Len(events)
    <3>1. events'[n].cause < n /\ events'[n].cause \in Nat
      <4>1. events'[n].cause < n /\ events' \in Seq(Event)
        BY DEF EventsKeep, EventsOK
      <4>2. events'[n] \in Event
        BY <4>1 DEF Id
      <4> QED
        BY <4>1, <4>2 DEF Event
    <3>2. s[1].id \in Id'
      BY <1>1, <2>5 DEF StackOK, EarlyAt
    <3>3. n \in Id => events'[n].cause < s[1].id
      BY <1>2, <2>5, <3>1, <3>2 DEF Id
    <3>4. n > Len(events) => events'[n].cause <= Len(events)
      BY <1>2, <2>1 DEF Id
    <3> QED
      BY <1>1, <1>2, <2>2, <2>5, <3>2, <3>3, <3>4 DEF Id
  <2> QED
    BY <1>1, <2>3, <2>4, <2>5
<1>7. task' \in [Task -> Seq(Frame)]
  OBVIOUS
<1> QED
  BY <1>3, <1>4, <1>5, <1>6, <1>7 DEF EventsKeep

\* What the control invariant says of the stack of a task.
LEMMA StackShape ==
    ASSUME Control, NEW p \in Task
    PROVE  /\ task[p] \in Seq(Frame) /\ Len(task[p]) \in {0, 1, 2}
           /\ task[p] = <<>> <=> Len(task[p]) = 0
           /\ Len(task[p]) = 1 => Bottom(p) = task[p][1]
           /\ Len(task[p]) = 2 => Bottom(p) = task[p][2]
           /\ Len(task[p]) > 0 => /\ Head(task[p]) = task[p][1] /\ task[p][1] \in Frame
                                  /\ task[p][1].id \in Id
<1>1. task[p] \in Seq(Frame) /\ Len(task[p]) <= 2
  BY DEF Control, StackOK
<1>2. Len(task[p]) \in {0, 1, 2}
  <2>1. PICK n \in Nat : n = Len(task[p])
    BY <1>1
  <2>2. n <= 2
    BY <1>1, <2>1
  <2>3. n \in {0, 1, 2}
    BY <2>2
  <2> QED
    BY <2>1, <2>3
<1>3. Len(task[p]) > 0 => task[p][1].id \in Id
  BY <1>2 DEF Control, StackOK
<1> QED
  BY <1>1, <1>2, <1>3 DEF Bottom

\* Facts about sequences the provers need to be told.
LEMMA IsEmpty == ASSUME NEW S, NEW s \in Seq(S), Len(s) = 0 PROVE s = <<>>
OBVIOUS

\* A sequence of one element has no tail.
LEMMA TailOfOne ==
    ASSUME NEW S, NEW s \in Seq(S), Len(s) = 1
    PROVE  Tail(s) = <<>>
<1>1. s # <<>>
  <2> SUFFICES ASSUME s = <<>> PROVE FALSE
    OBVIOUS
  <2> QED
    OBVIOUS
<1>2. Tail(s) \in Seq(S) /\ Len(Tail(s)) = 0
  BY <1>1
<1> QED
  BY <1>2, IsEmpty

\* The depths of a stack at work.
LEMMA OneOrTwo ==
    ASSUME NEW n \in {1, 2}
    PROVE  n \in Nat /\ n <= 2 /\ n > 0
OBVIOUS

\* What is asked of the stack a task goes on with, and the locks it then holds.
LEMMA StackNext ==
    ASSUME NEW p \in Task, NEW s \in Seq(Frame), task'[p] = s,
           Len(s) \in {1, 2},
           \A k \in 1..Len(s) :
              /\ s[k].id \in Id'
              /\ s[k].pc \in {"lock", "fresh", "record"} => s[k].alert \in Alert
              /\ s[k].pc = "save" => events'[s[k].id].persistent,
           events'[s[Len(s)].id].alert = None,
           Len(s) = 2 => /\ s[1].pc \in Early /\ s[2].pc = "record"
                         /\ events'[s[1].id].alert = s[2].alert
    PROVE  /\ StackOK(p)'
           /\ \A a \in Alert :
                 Holds(p, a)' <=> s[Len(s)].pc \in Holding /\ s[Len(s)].alert = a
           /\ EarlyAt(p)' <=> s[1].pc \in Early
<1>1. Len(s) \in Nat /\ Len(s) <= 2 /\ Len(s) > 0
  BY Zenon, OneOrTwo
<1>2. Bottom(p)' = s[Len(s)]
  <2>1. Bottom(p)' = task'[p][Len(task'[p])]
    BY Zenon DEF Bottom
  <2> QED
    BY Zenon, <2>1
<1>3. Len(task'[p]) = Len(s) /\ task'[p] \in Seq(Frame)
  OBVIOUS
<1>4. StackOK(p)'
  <2>1. \A k \in 1..Len(task'[p]) :
           /\ task'[p][k].id \in Id'
           /\ task'[p][k].pc \in {"lock", "fresh", "record"} => task'[p][k].alert \in Alert
           /\ task'[p][k].pc = "save" => events'[task'[p][k].id].persistent
    OBVIOUS
  <2>2. events'[Bottom(p)'.id].alert = None
    BY <1>2
  <2>3. Len(task'[p]) = 2 =>
           /\ task'[p][1].pc \in Early /\ task'[p][2].pc = "record"
           /\ events'[task'[p][1].id].alert = task'[p][2].alert
    OBVIOUS
  <2> QED
    BY <1>1, <1>3, <2>1, <2>2, <2>3 DEF StackOK
<1>5. \A a \in Alert : Holds(p, a)' <=> s[Len(s)].pc \in Holding /\ s[Len(s)].alert = a
  BY <1>1, <1>2, <1>3 DEF Holds
<1>6. EarlyAt(p)' <=> s[1].pc \in Early
  BY <1>1, <1>3 DEF EarlyAt
<1> QED
  BY <1>4, <1>5, <1>6

\* With the same events, only their sequences perhaps assigned.
LEMMA SameEvents ==
    ASSUME EventsOK, EventsOK', Len(events') = Len(events),
           \A n \in Id : /\ events'[n].alert = events[n].alert
                         /\ events'[n].cause = events[n].cause
                         /\ events'[n].routing = events[n].routing
                         /\ events'[n].persistent = events[n].persistent
    PROVE  EventsKeep /\ Id' = Id /\ \A n \in Id' : ~(n > Len(events))
BY DEF EventsOK, EventsKeep, Id

\* A new event is the last.
LEMMA EventAdded ==
    ASSUME EventsOK, NEW e \in Event, e.cause <= Len(events),
           e.alert # None => e.persistent, events' = Append(events, e)
    PROVE  /\ EventsKeep /\ Len(events') = Len(events) + 1
           /\ Len(events) + 1 \in Id' /\ Len(events) \in Nat
           /\ events'[Len(events) + 1] = e
           /\ \A n \in Id : events'[n] = events[n] /\ n # Len(events) + 1 /\ n \in Id'
           /\ \A n \in Id' : n \in Id \/ n = Len(events) + 1
<1> USE DEF EventsOK, Id
<1>1. Len(events) \in Nat /\ Len(events') = Len(events) + 1 /\ events' \in Seq(Event)
  OBVIOUS
<1>2. events'[Len(events) + 1] = e /\ \A n \in 1..Len(events) : events'[n] = events[n]
  OBVIOUS
<1>3. \A n \in 1..Len(events') : n \in 1..Len(events) \/ n = Len(events) + 1
  BY <1>1
<1>4. e.cause \in Nat
  BY DEF Event
<1>5. \A n \in 1..Len(events') :
         events'[n].cause < n /\ (events'[n].alert # None => events'[n].persistent)
  BY <1>1, <1>2, <1>3, <1>4
<1> QED
  BY <1>1, <1>2, <1>3, <1>5 DEF EventsKeep

\* A publication begins.
LEMMA TaskBegins ==
    ASSUME Control, NEW p \in Task, task[p] = <<>>, NEW e \in Event, e.cause = 0, e.alert = None,
           NEW pc \in {"save", "journal"}, pc = "save" => e.persistent,
           events' = Append(events, e), lock' = lock,
           task' = [task EXCEPT ![p] = <<NewFrame(pc)>>]
    PROVE  Control' /\ EventsKeep
<1> DEFINE f == NewFrame(pc)
<1>1. EventsOK /\ Len(events) \in Nat /\ 0 <= Len(events)
  BY DEF Control, EventsOK
<1>2. /\ EventsKeep /\ Len(events') = Len(events) + 1
      /\ Len(events) + 1 \in Id' /\ events'[Len(events) + 1] = e
      /\ \A n \in Id' : n \in Id \/ n = Len(events) + 1
  BY <1>1, EventAdded
<1>3. f \in Frame /\ f.id = Len(events) + 1 /\ f.pc = pc
  BY <1>1 DEF NewFrame, Frame
<1>4. PICK s \in Seq(Frame) : s = <<f>> /\ Len(s) = 1 /\ s[1] = f
  <2> HIDE DEF f
  <2>1. <<f>> \in Seq(Frame) /\ Len(<<f>>) = 1 /\ <<f>>[1] = f
    BY <1>3
  <2> QED
    BY <2>1
<1> HIDE DEF f
<1>5. task' = [task EXCEPT ![p] = s] /\ task'[p] = s /\ Len(task[p]) = 0
  BY <1>4 DEF Control, f
<1>6. StackOK(p)'
  BY <1>2, <1>3, <1>4, <1>5 DEF StackOK, Bottom
<1>7. \A a \in Alert : lock'[a] = p <=> Holds(p, a)'
  BY <1>3, <1>4, <1>5 DEF Holds, Bottom, Holding, Control, LocksOK
<1>8. \A n \in Id' : n > Len(events) => events'[n].cause = 0
  BY <1>1, <1>2 DEF Id
<1>9. lock' \in [Alert -> Task \cup {None}]
  BY DEF Control, LocksOK
<1>10. \A k \in 1..Len(s) : s[k].id > Len(events)
  BY <1>1, <1>3, <1>4
<1>11. Len(s) # 2 /\ s[1].id > Len(events)
  BY <1>1, <1>3, <1>4
<1> QED
  BY <1>2, <1>5, <1>6, <1>7, <1>8, <1>9, <1>10, <1>11, ControlStep

\* A publication goes on, the locks with it: none concerned, those of the task released,
\* or the one it waited for taken.
LEMMA TaskAdvances ==
    ASSUME Control, EventsKeep, Len(events') = Len(events), NEW p \in Task, Len(task[p]) > 0,
           NEW f \in Frame, f.id = task[p][1].id, task' = [task EXCEPT ![p][1] = f],
           f.pc # "save",
           f.pc \in Early => task[p][1].pc \in Early,
           f.pc \notin Early => Len(task[p]) = 1,
           f.pc \in {"lock", "fresh", "record"} => f.alert \in Alert,
           \/ lock' = lock /\ f.pc \notin Holding /\ task[p][1].pc \notin Holding
           \/ lock' = Released(p) /\ f.pc = "lock"
           \/ /\ lock' = [lock EXCEPT ![f.alert] = p] /\ lock[f.alert] = None
              /\ f.pc = "fresh" /\ task[p][1].pc = "lock"
    PROVE  Control'
<1>1. /\ task[p] \in Seq(Frame) /\ Len(task[p]) \in {1, 2}
      /\ Len(task[p]) = 1 => Bottom(p) = task[p][1]
      /\ Len(task[p]) = 2 => Bottom(p) = task[p][2] /\ f.pc \in Early
      /\ task[p][1].id \in Id /\ StackOK(p) /\ task[p][1] \in Frame
  BY StackShape DEF Control
<1>2. PICK s \in Seq(Frame) : /\ s = [task[p] EXCEPT ![1] = f] /\ Len(s) = Len(task[p])
                              /\ s[1] = f /\ (Len(s) = 2 => s[2] = task[p][2])
  <2> DEFINE t == [task[p] EXCEPT ![1] = f]
  <2>1. t \in Seq(Frame) /\ Len(t) = Len(task[p])
    BY <1>1
  <2>2. t[1] = f
    BY <1>1
  <2>3. Len(t) = 2 => t[2] = task[p][2]
    BY <1>1, <2>1
  <2> HIDE DEF t
  <2>4. \E s \in Seq(Frame) : s = t
    BY <2>1
  <2> QED
    BY <2>1, <2>2, <2>3, <2>4 DEF t
<1>3. task' = [task EXCEPT ![p] = s] /\ task'[p] = s
  BY <1>2 DEF Control
<1>4. Len(events) \in Nat /\ Id' = Id /\ \A n \in Id : ~(n > Len(events))
  BY DEF Control, EventsOK, Id
<1>5. \A k \in 1..Len(s) : k = 1 \/ (k = 2 /\ Len(s) = 2)
  BY <1>1, <1>2
<1>6. \A k \in 1..Len(s) : k \in 1..Len(task[p]) /\ s[k].id = task[p][k].id
  BY <1>1, <1>2, <1>5
<1>7. StackOK(p)'
  <2>1. \A k \in 1..Len(s) :
           /\ s[k].id \in Id'
           /\ s[k].pc \in {"lock", "fresh", "record"} => s[k].alert \in Alert
           /\ s[k].pc = "save" => events'[s[k].id].persistent
    BY <1>1, <1>2, <1>4, <1>5 DEF StackOK, EventsKeep, Early
  <2>2. \A k \in 1..Len(s) : events'[s[k].id].alert = events[task[p][k].id].alert
    BY <1>1, <1>6 DEF StackOK, EventsKeep
  <2>3. events'[s[Len(s)].id].alert = None
    BY SMTT(30), <1>1, <1>2, <2>2 DEF StackOK, Bottom
  <2>4. ASSUME Len(s) = 2
        PROVE  s[1].pc \in Early /\ s[2].pc = "record" /\ events'[s[1].id].alert = s[2].alert
    <3>1. Len(task[p]) = 2 /\ s[1].pc \in Early /\ s[2] = task[p][2] /\ 1 \in 1..Len(s)
      BY <1>1, <1>2, <2>4
    <3>2. task[p][2].pc = "record" /\ events[task[p][1].id].alert = task[p][2].alert
      BY <1>1, <3>1 DEF StackOK
    <3>3. events'[s[1].id].alert = events[task[p][1].id].alert
      BY <2>2, <3>1
    <3> QED
      BY <3>1, <3>2, <3>3
  <2> QED
    BY <1>1, <1>2, <1>3, <2>1, <2>3, <2>4 DEF StackOK, Bottom
<1>8. lock' \in [Alert -> Task \cup {None}]
  BY DEF Control, LocksOK, Released
<1>9. \A a \in Alert, q \in Task : q # p => (lock'[a] = q <=> lock[a] = q)
  BY PublicationAssumption DEF Control, LocksOK, Released
<1>10. \A a \in Alert : lock'[a] = p <=> Holds(p, a)'
  <2>1. \A a \in Alert : lock[a] = p <=> Holds(p, a)
    BY DEF Control, LocksOK
  <2>2. CASE Len(s) = 2
    <3>1. Bottom(p)' = Bottom(p) /\ lock' = lock
      BY <1>1, <1>2, <1>3, <2>2 DEF Bottom, Early
    <3> QED
      BY <1>1, <1>2, <1>3, <2>1, <3>1 DEF Holds
  <2>3. CASE Len(s) = 1
    <3>1. Bottom(p)' = f /\ Bottom(p) = task[p][1]
      BY <1>1, <1>2, <1>3, <2>3 DEF Bottom
    <3>2. \A a \in Alert : Holds(p, a)' <=> f.pc \in Holding /\ f.alert = a
      BY <1>2, <1>3, <2>3, <3>1 DEF Holds
    <3>3. \A a \in Alert : Holds(p, a) <=> task[p][1].pc \in Holding /\ task[p][1].alert = a
      BY <1>2, <2>3, <3>1 DEF Holds
    <3> QED
      BY <2>1, <3>2, <3>3, PublicationAssumption DEF Control, LocksOK, Released, Holding
  <2> QED
    BY <1>1, <1>2, <2>2, <2>3
<1>11. EarlyAt(p)' => EarlyAt(p) /\ s[1].id = task[p][1].id
  BY <1>1, <1>2, <1>3 DEF EarlyAt
<1>12. Len(s) = 2 => s[1].id # s[2].id
  BY <1>1, <1>2, <1>5, <1>6 DEF Control, OnceOnly
<1> QED
  BY <1>3, <1>4, <1>6, <1>7, <1>8, <1>9, <1>10, <1>11, <1>12, ControlStep

\* The trigger's publication is over and the evaluation it came from goes on.
LEMMA TaskReturns ==
    ASSUME Control, EventsKeep, Len(events') = Len(events), NEW p \in Task, Len(task[p]) = 2,
           task' = [task EXCEPT ![p] = Tail(@)], lock' = lock
    PROVE  Control'
<1>1. /\ task[p] \in Seq(Frame) /\ Bottom(p) = task[p][2] /\ StackOK(p)
      /\ task[p][2] \in Frame /\ 2 \in 1..Len(task[p])
  BY StackShape DEF Control
<1>2. PICK s \in Seq(Frame) : /\ task' = [task EXCEPT ![p] = s]
                              /\ Len(s) = 1 /\ s[1] = task[p][2]
  <2> DEFINE t == Tail(task[p])
  <2>1. t \in Seq(Frame) /\ Len(t) = 1 /\ t[1] = task[p][2]
    BY <1>1
  <2>2. task' = [task EXCEPT ![p] = t]
    OBVIOUS
  <2> HIDE DEF t
  <2> QED
    BY <2>1, <2>2
<1>3. task'[p] = s
  BY <1>2 DEF Control
<1>4. Len(events) \in Nat /\ Id' = Id /\ \A n \in Id : ~(n > Len(events))
  BY DEF Control, EventsOK, Id
<1>5. s[1].pc = "record" /\ s[1].id \in Id /\ s[1].alert \in Alert
      /\ events'[s[1].id].alert = None
  BY <1>1, <1>2 DEF StackOK, Bottom, EventsKeep
<1>6. /\ StackOK(p)'
      /\ \A a \in Alert : Holds(p, a)' <=> s[1].pc \in Holding /\ s[1].alert = a
      /\ EarlyAt(p)' <=> s[1].pc \in Early
  <2>1. Len(s) = 1 /\ \A k \in 1..Len(s) : k = 1
    BY <1>2
  <2>2. /\ s[1].id \in Id' /\ s[1].pc # "save"
        /\ events'[s[1].id].alert = None /\ s[1].alert \in Alert
    BY <1>4, <1>5
  <2>3. \A k \in 1..Len(s) :
           /\ s[k].id \in Id'
           /\ s[k].pc \in {"lock", "fresh", "record"} => s[k].alert \in Alert
           /\ s[k].pc = "save" => events'[s[k].id].persistent
    BY <2>1, <2>2
  <2>4. /\ Len(s) \in {1, 2} /\ Len(s) # 2
        /\ events'[s[Len(s)].id].alert = None
    BY <2>1, <2>2
  <2>5. /\ StackOK(p)'
        /\ \A a \in Alert : Holds(p, a)' <=> s[Len(s)].pc \in Holding /\ s[Len(s)].alert = a
        /\ EarlyAt(p)' <=> s[1].pc \in Early
    BY <1>3, <2>3, <2>4, StackNext
  <2> QED
    BY <2>1, <2>5
<1>7. \A a \in Alert : Holds(p, a) <=> s[1].pc \in Holding /\ s[1].alert = a
  <2>1. Len(task[p]) > 0 /\ Bottom(p) = s[1]
    BY <1>1, <1>2
  <2> QED
    BY <2>1 DEF Holds
<1>8. \A a \in Alert : lock'[a] = p <=> Holds(p, a)'
  BY <1>6, <1>7 DEF Control, LocksOK
<1>9. ~EarlyAt(p)' /\ lock' \in [Alert -> Task \cup {None}]
  BY <1>5, <1>6 DEF Early, Control, LocksOK
<1>10. \A k \in 1..Len(s) : 2 \in 1..Len(task[p]) /\ s[k].id = task[p][2].id
  BY <1>1, <1>2
<1>11. Len(s) # 2
  BY <1>2
<1> QED
  BY <1>2, <1>4, <1>6, <1>8, <1>9, <1>10, <1>11, ControlStep

\* A task has nothing left to do, or was made to drop it; what it held is free.
LEMMA TaskEnds ==
    ASSUME Control, EventsKeep, Len(events') = Len(events), NEW p \in Task,
           task' = [task EXCEPT ![p] = <<>>],
           \/ lock' = Released(p)
           \/ lock' = lock /\ \A a \in Alert : lock[a] # p
    PROVE  Control'
<1>1. PICK s \in Seq(Frame) : task' = [task EXCEPT ![p] = s] /\ Len(s) = 0
  <2> DEFINE t == <<>>
  <2>1. t \in Seq(Frame) /\ Len(t) = 0
    OBVIOUS
  <2>2. task' = [task EXCEPT ![p] = t]
    OBVIOUS
  <2> HIDE DEF t
  <2> QED
    BY <2>1, <2>2
<1>2. task'[p] = s /\ Len(task'[p]) = 0
  BY <1>1 DEF Control
<1>3. Len(events) \in Nat /\ Id' = Id /\ \A n \in Id : ~(n > Len(events))
  BY DEF Control, EventsOK, Id
<1>4. StackOK(p)' /\ ~EarlyAt(p)' /\ \A a \in Alert : ~Holds(p, a)'
  <2>1. EarlyAt(p)' <=> Len(task'[p]) > 0 /\ task'[p][1].pc \in Early
    BY DEF EarlyAt
  <2>2. \A a \in Alert : Holds(p, a)' => Len(task'[p]) > 0
    BY DEF Holds
  <2>3. StackOK(p)'
    BY <1>2 DEF StackOK
  <2> QED
    BY <1>2, <2>1, <2>2, <2>3
<1>5. lock' \in [Alert -> Task \cup {None}]
  BY DEF Control, LocksOK, Released
<1>6. \A a \in Alert : lock'[a] # p
  BY PublicationAssumption DEF Released, Control, LocksOK
<1>7. \A a \in Alert, q \in Task : q # p => (lock'[a] = q <=> lock[a] = q)
  BY PublicationAssumption DEF Control, LocksOK, Released
<1>8. \A k \in 1..Len(s) : FALSE
  BY <1>1
<1>9. \A a \in Alert : lock'[a] = p <=> Holds(p, a)'
  BY <1>4, <1>6
<1>10. Len(s) # 2
  BY <1>1
<1> QED
  BY <1>1, <1>3, <1>4, <1>5, <1>7, <1>8, <1>9, <1>10, ControlStep

\* An evaluation publishes the trigger of the alert it has locked.
LEMMA TriggerNests ==
    ASSUME Control, NEW p \in Task, Len(task[p]) = 1, task[p][1].pc = "fresh",
           NEW e \in Event, e.cause = task[p][1].id, e.alert = task[p][1].alert, e.persistent,
           events' = Append(events, e), lock' = lock,
           task' = [task EXCEPT ![p] = <<NewFrame("save"), [Head(@) EXCEPT !.pc = "record"]>>]
    PROVE  Control' /\ EventsKeep
<1> DEFINE f == NewFrame("save")
           g == [task[p][1] EXCEPT !.pc = "record"]
<1>1. /\ task[p] \in Seq(Frame) /\ Bottom(p) = task[p][1] /\ StackOK(p)
      /\ task[p][1] \in Frame /\ task[p][1].id \in Id /\ 1 \in 1..Len(task[p])
      /\ task[p][1].alert \in Alert /\ Head(task[p]) = task[p][1]
      /\ events[task[p][1].id].alert = None
  BY StackShape DEF Control, StackOK
<1>2. EventsOK /\ Len(events) \in Nat /\ e.cause <= Len(events) /\ e.alert # None
  BY <1>1, PublicationAssumption DEF Control, EventsOK, Id
<1>3. /\ EventsKeep /\ Len(events') = Len(events) + 1
      /\ Len(events) + 1 \in Id' /\ events'[Len(events) + 1] = e
      /\ \A n \in Id : events'[n] = events[n] /\ n # Len(events) + 1 /\ n \in Id'
      /\ \A n \in Id' : n \in Id \/ n = Len(events) + 1
  BY <1>2, EventAdded
<1>4. f \in Frame /\ f.id = Len(events) + 1 /\ f.pc = "save"
  BY <1>2 DEF NewFrame, Frame
<1>5. /\ g \in Frame /\ g.pc = "record" /\ g.id = task[p][1].id
      /\ g.alert = task[p][1].alert
  BY <1>1 DEF Frame
<1> HIDE DEF f, g
<1>6. PICK s \in Seq(Frame) : /\ task' = [task EXCEPT ![p] = s]
                              /\ Len(s) = 2 /\ s[1] = f /\ s[2] = g
  <2> DEFINE t == <<f, g>>
  <2>1. t \in Seq(Frame) /\ Len(t) = 2 /\ t[1] = f /\ t[2] = g
    BY <1>4, <1>5
  <2>2. task' = [task EXCEPT ![p] = t]
    BY <1>1 DEF Control, f, g
  <2> HIDE DEF t
  <2> QED
    BY <2>1, <2>2
<1>7. task'[p] = s
  BY <1>6 DEF Control
<1>8. \A k \in 1..Len(s) : k = 1 \/ k = 2
  BY <1>6
<1>9. /\ StackOK(p)'
      /\ \A a \in Alert : Holds(p, a)' <=> s[2].pc \in Holding /\ s[2].alert = a
  <2>1. \A k \in 1..Len(s) :
           /\ s[k].id \in Id'
           /\ s[k].pc \in {"lock", "fresh", "record"} => s[k].alert \in Alert
           /\ s[k].pc = "save" => events'[s[k].id].persistent
    BY <1>1, <1>3, <1>4, <1>5, <1>6, <1>8
  <2>2. events'[s[2].id].alert = None
    <3>1. s[2].id = task[p][1].id /\ task[p][1].id \in Id
      BY <1>1, <1>5, <1>6
    <3>2. events'[task[p][1].id] = events[task[p][1].id]
      BY <1>3, <3>1
    <3> QED
      BY <1>1, <3>1, <3>2
  <2>3. s[1].pc \in Early /\ s[2].pc = "record" /\ events'[s[1].id].alert = s[2].alert
    BY <1>3, <1>4, <1>5, <1>6 DEF Early
  <2>4. /\ \A k \in 1..2 :
              /\ s[k].id \in Id'
              /\ s[k].pc \in {"lock", "fresh", "record"} => s[k].alert \in Alert
              /\ s[k].pc = "save" => events'[s[k].id].persistent
    BY <1>6, <2>1
  <2>5. s \in Seq(Frame) /\ Len(s) = 2
    BY <1>6
  <2>6. /\ \A k \in 1..Len(s) :
              /\ s[k].id \in Id'
              /\ s[k].pc \in {"lock", "fresh", "record"} => s[k].alert \in Alert
              /\ s[k].pc = "save" => events'[s[k].id].persistent
        /\ events'[s[Len(s)].id].alert = None
    BY <2>2, <2>4, <2>5
  <2>7. /\ StackOK(p)'
        /\ \A a \in Alert : Holds(p, a)' <=> s[Len(s)].pc \in Holding /\ s[Len(s)].alert = a
    BY <1>7, <2>3, <2>5, <2>6, StackNext
  <2> QED
    BY <2>5, <2>7
<1>11. \A a \in Alert : lock'[a] = p <=> Holds(p, a)'
  <2>1. \A a \in Alert : Holds(p, a) <=> task[p][1].alert = a
    <3>1. Len(task[p]) > 0 /\ task[p][1].pc \in Holding
      BY DEF Holding
    <3> QED
      BY <1>1, <3>1 DEF Holds
  <2>2. \A a \in Alert : lock[a] = p <=> Holds(p, a)
    BY DEF Control, LocksOK
  <2>3. \A a \in Alert : Holds(p, a)' <=> g.alert = a
    BY <1>5, <1>6, <1>9 DEF Holding
  <2> QED
    BY <1>5, <2>1, <2>2, <2>3
<1>12. lock' \in [Alert -> Task \cup {None}]
  BY DEF Control, LocksOK
<1>13. \A k \in 1..Len(s) : s[k].id > Len(events) \/ s[k].id = task[p][1].id
  BY <1>2, <1>4, <1>5, <1>6, <1>8
<1>14. s[1].id > Len(events) /\ s[1].id # s[2].id
  BY <1>1, <1>2, <1>3, <1>4, <1>5, <1>6
<1>15. \A n \in Id' : n > Len(events) =>
          Len(task[p]) > 0 /\ ~EarlyAt(p) /\ events'[n].cause = task[p][1].id
  BY <1>2, <1>3 DEF EarlyAt, Early, Id
<1>16. \A k \in 1..Len(s) : \/ s[k].id > Len(events)
                            \/ \E j \in 1..Len(task[p]) : s[k].id = task[p][j].id
  BY <1>1, <1>13
<1>17. \A a \in Alert, q \in Task : q # p => (lock'[a] = q <=> lock[a] = q)
  OBVIOUS
<1>18. task' = [task EXCEPT ![p] = s] /\ EventsKeep /\ StackOK(p)'
  BY <1>3, <1>6, <1>9
<1> QED
  BY <1>11, <1>12, <1>14, <1>15, <1>16, <1>17, <1>18, ControlStep
\* A save gives its event a sequence.
LEMMA EventsSaved ==
    ASSUME EventsOK, NEW n \in Id, NEW q \in Nat,
           events' = [events EXCEPT ![n].sequence = q]
    PROVE  /\ EventsKeep /\ Len(events') = Len(events) /\ Id' = Id
           /\ events'[n].sequence = q
           /\ \A m \in Id : m # n => events'[m] = events[m]
<1> DEFINE e == [events[n] EXCEPT !.sequence = q]
<1>1. events \in Seq(Event) /\ events[n] \in Event
  BY DEF EventsOK, Id
<1>2. /\ e \in Event /\ e.sequence = q
      /\ e.alert = events[n].alert /\ e.cause = events[n].cause
      /\ e.routing = events[n].routing /\ e.persistent = events[n].persistent
  BY <1>1 DEF Event
<1>3. events' = [events EXCEPT ![n] = e]
  OBVIOUS
<1> HIDE DEF e
<1>4. /\ events' \in Seq(Event) /\ Len(events') = Len(events) /\ Id' = Id
      /\ events'[n] = e /\ \A m \in Id : m # n => events'[m] = events[m]
  BY <1>1, <1>2, <1>3 DEF Id
<1>5. \A m \in Id : /\ events'[m].alert = events[m].alert
                    /\ events'[m].cause = events[m].cause
                    /\ events'[m].routing = events[m].routing
                    /\ events'[m].persistent = events[m].persistent
  BY <1>2, <1>4
<1>6. EventsOK'
  BY <1>4, <1>5 DEF EventsOK
<1> QED
  BY <1>2, <1>4, <1>5, <1>6, SameEvents

\* With the events untouched.
LEMMA EventsRest ==
    ASSUME EventsOK, events' = events
    PROVE  EventsKeep /\ Len(events') = Len(events)
BY DEF EventsOK, EventsKeep, Id

\* Where a task stands decides how much of a stack it has.
LEMMA StandsAt ==
    ASSUME Control, NEW p \in Task, NEW pc, At(p, pc)
    PROVE  /\ Len(task[p]) \in {1, 2} /\ Len(task[p]) > 0 /\ task[p] # <<>>
           /\ Head(task[p]) = task[p][1] /\ task[p][1].pc = pc
           /\ Current(p) = task[p][1].id /\ task[p][1].id \in Id
           /\ task[p][1] \in Frame
           /\ pc \notin Early => Len(task[p]) = 1 /\ Bottom(p) = task[p][1]
           /\ pc \notin Holding => lock = Released(p) \/ Len(task[p]) = 2
<1>1. task[p] # <<>> /\ Head(task[p]).pc = pc
  BY DEF At
<1>2. /\ Len(task[p]) \in {1, 2} /\ Head(task[p]) = task[p][1]
      /\ task[p][1].pc = pc /\ task[p][1].id \in Id /\ task[p][1] \in Frame
      /\ Len(task[p]) > 0
  <2>1. Len(task[p]) \in {1, 2}
    BY <1>1, StackShape
  <2> QED
    BY <1>1, <2>1, StackShape
<1>3. Len(task[p]) = 2 => pc \in Early
  BY <1>2 DEF Control, StackOK
<1>4. Current(p) = task[p][1].id
  BY <1>2 DEF Current
<1>5. ASSUME pc \notin Holding, Len(task[p]) = 1
      PROVE  lock = Released(p)
  <2>1. Bottom(p) = task[p][1]
    BY <1>5, StackShape
  <2>2. \A a \in Alert : lock[a] # p
    BY <1>2, <1>5, <2>1 DEF Control, LocksOK, Holds
  <2>3. lock \in [Alert -> Task \cup {None}]
    BY DEF Control, LocksOK
  <2> QED
    BY <2>2, <2>3 DEF Released
<1>6. Len(task[p]) = 1 => Bottom(p) = task[p][1]
  BY StackShape
<1> QED
  BY <1>1, <1>2, <1>3, <1>4, <1>5, <1>6

\* The next candidate, or the end.
LEMMA Evaluates ==
    ASSUME Control, events' = events, NEW p \in Task, NEW pc \in {"candidates", "fresh", "record"},
           At(p, pc), NEW todo \in SUBSET Alert, Evaluate(p, todo), lock' = Released(p)
    PROVE  Control'
<1>1. /\ Len(task[p]) = 1 /\ Len(task[p]) > 0 /\ task[p][1] \in Frame
      /\ task[p] \in Seq(Frame)
  BY StandsAt, StackShape DEF Early
<1>2. EventsKeep /\ Len(events') = Len(events)
  BY EventsRest DEF Control
<1>3. CASE todo = {}
  <2>1. task' = [task EXCEPT ![p] = Tail(@)]
    BY <1>3 DEF Evaluate
  <2>2. Tail(task[p]) = <<>>
    BY <1>1, TailOfOne
  <2>3. task' = [task EXCEPT ![p] = <<>>]
    BY <2>1, <2>2
  <2> QED
    BY <1>2, <2>3, TaskEnds
<1>4. CASE todo # {}
  <2>1. PICK a \in todo :
           task' = [task EXCEPT ![p][1] = [@ EXCEPT !.pc = "lock", !.todo = todo \ {a}, !.alert = a]]
    BY <1>4 DEF Evaluate
  <2> DEFINE f == [task[p][1] EXCEPT !.pc = "lock", !.todo = todo \ {a}, !.alert = a]
  <2>2. f \in Frame /\ f.pc = "lock" /\ f.id = task[p][1].id /\ f.alert = a
    BY <1>1 DEF Frame
  <2>3. task' = [task EXCEPT ![p][1] = f]
    BY <2>1
  <2> HIDE DEF f
  <2>4. /\ f.pc # "save" /\ f.pc \notin Early /\ f.alert \in Alert
        /\ lock' = Released(p) /\ f.pc = "lock"
    BY <2>2 DEF Early
  <2> QED
    BY <1>1, <1>2, <2>2, <2>3, <2>4, TaskAdvances
<1> QED
  BY <1>3, <1>4
\* The steps of publish_event and of the evaluation it ends with, one by one.
LEMMA ControlPublishes ==
    ASSUME Control, NEW p \in Task, NEW e \in FeedEvents, PublishEvent(p, e)
    PROVE  Control' /\ EventsKeep
<1> DEFINE v == [sequence |-> 0, persistent |-> e.persistent, routing |-> e.routing,
                 type |-> e.type, data |-> e.data, alert |-> None, cause |-> 0]
           pc == IF e.persistent THEN "save" ELSE "journal"
<1>1. v \in Event /\ v.cause = 0 /\ v.alert = None /\ v.persistent = e.persistent
  BY PublicationAssumption DEF Event
<1>2. pc \in {"save", "journal"} /\ (pc = "save" => v.persistent)
  BY <1>1
<1>3. /\ task[p] = <<>> /\ events' = Append(events, v) /\ lock' = lock
      /\ task' = [task EXCEPT ![p] = <<NewFrame(pc)>>]
  BY DEF PublishEvent
<1> HIDE DEF v, pc
<1> QED
  BY <1>1, <1>2, <1>3, TaskBegins

\* Saving an event (save_event and taking it into the history).
LEMMA ControlSaves ==
    ASSUME Control, IInv, NEW p \in Task, SaveAndTakeIn(p)
    PROVE  Control' /\ EventsKeep
<1>1. At(p, "save") /\ SaveEvent(Current(p)) /\ Go(p, "journal") /\ lock' = lock
  BY DEF SaveAndTakeIn
<1>2. /\ Len(task[p]) > 0 /\ task[p][1].pc = "save" /\ Current(p) = task[p][1].id
      /\ task[p][1].id \in Id /\ task[p][1] \in Frame
  BY <1>1, StandsAt
<1>3. EventsKeep /\ Len(events') = Len(events)
  <2>1. nextSequence \in Nat
    BY EventStoreAssumption DEF IInv, StoreTypeOK
  <2> QED
    BY <1>1, <1>2, <2>1, EventsSaved DEF SaveEvent, Control
<1> DEFINE f == [task[p][1] EXCEPT !.pc = "journal"]
<1>4. f \in Frame /\ f.pc = "journal" /\ f.id = task[p][1].id
  BY <1>2 DEF Frame
<1>5. task' = [task EXCEPT ![p][1] = f]
  BY <1>1 DEF Go
<1> HIDE DEF f
<1>6. f.pc # "save" /\ f.pc \in Early /\ task[p][1].pc \in Early /\ f.pc \notin Holding
      /\ task[p][1].pc \notin Holding /\ f.pc \notin {"lock", "fresh", "record"}
  BY <1>2, <1>4 DEF Early, Holding
<1> QED
  BY <1>1, <1>2, <1>3, <1>4, <1>5, <1>6, TaskAdvances

\* Writing the event to the recent journal (append_recent_event).
LEMMA ControlJournals ==
    ASSUME Control, NEW p \in Task, AppendRecentEvent(p)
    PROVE  Control'
<1>1. At(p, "journal") /\ Go(p, "wake") /\ lock' = lock /\ events' = events
  BY DEF AppendRecentEvent
<1>2. /\ Len(task[p]) > 0 /\ task[p][1].pc = "journal"
      /\ task[p][1].id \in Id /\ task[p][1] \in Frame
  BY <1>1, StandsAt
<1>3. EventsKeep /\ Len(events') = Len(events)
  BY <1>1, EventsRest DEF Control
<1> DEFINE f == [task[p][1] EXCEPT !.pc = "wake"]
<1>4. f \in Frame /\ f.pc = "wake" /\ f.id = task[p][1].id
  BY <1>2 DEF Frame
<1>5. task' = [task EXCEPT ![p][1] = f]
  BY <1>1 DEF Go
<1> HIDE DEF f
<1>6. f.pc # "save" /\ f.pc \in Early /\ task[p][1].pc \in Early /\ f.pc \notin Holding
      /\ task[p][1].pc \notin Holding /\ f.pc \notin {"lock", "fresh", "record"}
  BY <1>2, <1>4 DEF Early, Holding
<1> QED
  BY <1>1, <1>2, <1>3, <1>4, <1>5, <1>6, TaskAdvances

\* Waking the consumers, and either evaluating alerts or returning.
LEMMA ControlWakes ==
    ASSUME Control, NEW p \in Task, Wake(p)
    PROVE  Control'
<1>1. At(p, "wake") /\ Proceed(p, AfterBroadcast(p)) /\ lock' = lock /\ events' = events
  BY DEF Wake
<1>2. /\ Len(task[p]) \in {1, 2} /\ Len(task[p]) > 0 /\ task[p][1].pc = "wake"
      /\ task[p][1].id \in Id /\ task[p][1] \in Frame /\ Head(task[p]) = task[p][1]
      /\ Current(p) = task[p][1].id /\ task[p] \in Seq(Frame)
  BY <1>1, StandsAt, StackShape
<1>3. EventsKeep /\ Len(events') = Len(events)
  BY <1>1, EventsRest DEF Control
<1>4. CASE Len(task[p]) = 1
  <2>1. events[Current(p)].alert = None
    BY <1>2, <1>4, StackShape DEF Control, StackOK
  <2>2. AfterBroadcast(p) = "candidates"
    BY <2>1 DEF AfterBroadcast
  <2> DEFINE f == [task[p][1] EXCEPT !.pc = "candidates"]
  <2>3. f \in Frame /\ f.pc = "candidates" /\ f.id = task[p][1].id
    BY <1>2 DEF Frame
  <2>4. task' = [task EXCEPT ![p] = <<f>> \o Tail(task[p])]
    BY <1>1, <1>2, <2>2 DEF Proceed
  <2> HIDE DEF f
  <2>5. <<f>> \o Tail(task[p]) = [task[p] EXCEPT ![1] = f]
    BY <1>2, <1>4, <2>3
  <2>6. task' = [task EXCEPT ![p][1] = f]
    BY <2>4, <2>5
  <2>7. f.pc # "save" /\ f.pc \notin Early /\ task[p][1].pc \in Early /\ f.pc \notin Holding
        /\ task[p][1].pc \notin Holding /\ f.pc \notin {"lock", "fresh", "record"}
    BY <1>2, <2>3 DEF Early, Holding
  <2> QED
    BY <1>1, <1>2, <1>3, <1>4, <2>3, <2>6, <2>7, TaskAdvances
<1>5. CASE Len(task[p]) = 2
  <2>1. events[Current(p)].alert = task[p][2].alert /\ task[p][2].pc = "record"
    BY <1>2, <1>5 DEF Control, StackOK
  <2>2. task[p][2].alert \in Alert
    <3>1. 2 \in 1..Len(task[p])
      BY <1>5
    <3> QED
      BY <2>1, <3>1 DEF Control, StackOK
  <2>3. AfterBroadcast(p) = "done"
    BY <2>1, <2>2, PublicationAssumption DEF AfterBroadcast
  <2>4. task' = [task EXCEPT ![p] = Tail(@)]
    BY <1>1, <2>3 DEF Proceed
  <2> QED
    BY <1>1, <1>3, <1>5, <2>4, TaskReturns
<1> QED
  BY <1>2, <1>4, <1>5

\* Taking an alert's lock.
LEMMA ControlLocks ==
    ASSUME Control, NEW p \in Task, AcquireLock(p)
    PROVE  Control'
<1> DEFINE a == Head(task[p]).alert
<1>1. /\ At(p, "lock") /\ Go(p, "fresh") /\ lock[a] = None
      /\ lock' = [lock EXCEPT ![a] = p] /\ events' = events
  BY DEF AcquireLock
<1>2. /\ Len(task[p]) > 0 /\ task[p][1].pc = "lock" /\ Len(task[p]) = 1
      /\ task[p][1].id \in Id /\ task[p][1] \in Frame /\ Head(task[p]) = task[p][1]
  BY <1>1, StandsAt DEF Early
<1>3. EventsKeep /\ Len(events') = Len(events)
  BY <1>1, EventsRest DEF Control
<1>4. task[p][1].alert \in Alert
  <2>1. 1 \in 1..Len(task[p])
    BY <1>2
  <2> QED
    BY <1>2, <2>1 DEF Control, StackOK
<1> DEFINE f == [task[p][1] EXCEPT !.pc = "fresh"]
<1>5. f \in Frame /\ f.pc = "fresh" /\ f.id = task[p][1].id /\ f.alert = task[p][1].alert
  BY <1>2 DEF Frame
<1>6. task' = [task EXCEPT ![p][1] = f]
  BY <1>1 DEF Go
<1> HIDE DEF f
<1>7. f.pc # "save" /\ f.pc \notin Early /\ f.alert \in Alert
      /\ lock' = [lock EXCEPT ![f.alert] = p] /\ lock[f.alert] = None
  BY <1>1, <1>2, <1>4, <1>5 DEF Early
<1> QED
  BY <1>2, <1>3, <1>5, <1>6, <1>7, TaskAdvances

\* The second look at the alert under its lock, and the trigger's publication.
LEMMA ControlFetches ==
    ASSUME Control, NEW p \in Task, GetAlert(p)
    PROVE  Control' /\ EventsKeep
<1> DEFINE a == Head(task[p]).alert
<1>1. At(p, "fresh")
  BY DEF GetAlert
<1>2. /\ Len(task[p]) = 1 /\ task[p][1].pc = "fresh" /\ Len(task[p]) > 0
      /\ task[p][1].id \in Id /\ task[p][1] \in Frame /\ Head(task[p]) = task[p][1]
      /\ Current(p) = task[p][1].id
  BY <1>1, StandsAt DEF Early
<1>3. a \in Alert
  <2>1. 1 \in 1..Len(task[p])
    BY <1>2
  <2> QED
    BY <1>2, <2>1 DEF Control, StackOK
<1>4. CASE StillEnabled(a)
  <2> DEFINE e == [sequence |-> 0, persistent |-> TRUE,
                   routing |-> [targets |-> {Owner[a]}, topics |-> {}],
                   type |-> "alert.triggered", data |-> AlertTriggeredData, alert |-> a,
                   cause |-> Current(p)]
  <2>1. /\ events' = Append(events, e) /\ lock' = lock
        /\ task' = [task EXCEPT ![p] = <<NewFrame("save"), [Head(@) EXCEPT !.pc = "record"]>>]
    BY <1>4 DEF GetAlert
  <2>2. [targets |-> {Owner[a]}, topics |-> {}] \in Routing
    BY <1>3, PublicationAssumption DEF Routing, Targeted
  <2>3. AlertTriggeredData \in Data
    BY DEF AlertTriggeredData, Data
  <2>4. Current(p) \in Nat
    BY <1>2 DEF Id
  <2>5. e \in Event
    BY <1>3, <2>2, <2>3, <2>4 DEF Event
  <2>6. e.cause = task[p][1].id /\ e.alert = task[p][1].alert /\ e.persistent
    BY <1>2
  <2> HIDE DEF e
  <2> QED
    BY <1>2, <2>1, <2>5, <2>6, TriggerNests
<1>5. CASE ~StillEnabled(a)
  <2>1. Evaluate(p, Head(task[p]).todo) /\ lock' = Released(p) /\ events' = events
    BY <1>5 DEF GetAlert
  <2>2. Head(task[p]).todo \in SUBSET Alert
    BY <1>2 DEF Frame
  <2>3. Control'
    BY <1>1, <2>1, <2>2, Evaluates
  <2> QED
    BY <2>1, <2>3, EventsRest DEF Control
<1> QED
  BY <1>4, <1>5
\* A restart leaves nothing under way.
LEMMA ControlRestarts ==
    ASSUME Control, Restart
    PROVE  Control'
<1>1. /\ events' = events /\ task' = [q \in Task |-> <<>>]
      /\ lock' = [a \in Alert |-> None]
  BY DEF Restart
<1>2. EventsOK'
  BY <1>1 DEF Control, EventsOK, Id
<1>3. \A q \in Task : task'[q] = <<>> /\ Len(task'[q]) = 0 /\ task'[q] \in Seq(Frame)
  BY <1>1
<1>4. \A q \in Task : StackOK(q)' /\ ~EarlyAt(q)' /\ \A a \in Alert : ~Holds(q, a)'
  <2> SUFFICES ASSUME NEW q \in Task
               PROVE  StackOK(q)' /\ ~EarlyAt(q)' /\ \A a \in Alert : ~Holds(q, a)'
    OBVIOUS
  <2>1. EarlyAt(q)' => Len(task'[q]) > 0
    BY DEF EarlyAt
  <2>2. \A a \in Alert : Holds(q, a)' => Len(task'[q]) > 0
    BY DEF Holds
  <2>3. StackOK(q)'
    BY <1>3 DEF StackOK
  <2> QED
    BY <1>3, <2>1, <2>2, <2>3
<1>5. LocksOK'
  BY <1>1, <1>4, PublicationAssumption DEF LocksOK
<1>6. OnceOnly'
  BY <1>3 DEF OnceOnly
<1> QED
  BY <1>1, <1>2, <1>3, <1>4, <1>5, <1>6 DEF Control, CausesSettled

\* A cancelled task has its store call done or not, and nothing after it.
LEMMA ControlCancels ==
    ASSUME Control, IInv, NEW p \in Task, Cancel(p)
    PROVE  Control' /\ EventsKeep
<1>1. task[p] # <<>> /\ task' = [task EXCEPT ![p] = <<>>] /\ lock' = Released(p)
  BY DEF Cancel
<1>2. Len(task[p]) > 0
  BY <1>1, StackShape
<1>3. EventsKeep /\ Len(events') = Len(events)
  <2>1. CASE events' = events
    BY <2>1, EventsRest DEF Control
  <2>2. CASE At(p, "save") /\ SaveEvent(Current(p))
    <3>1. Current(p) \in Id
      BY <2>2, StandsAt
    <3>2. nextSequence \in Nat
      BY EventStoreAssumption DEF IInv, StoreTypeOK
    <3> QED
      BY <2>2, <3>1, <3>2, EventsSaved DEF SaveEvent, Control
  <2> QED
    BY <2>1, <2>2 DEF Cancel
<1> QED
  BY <1>1, <1>2, <1>3, TaskEnds

\* Every step of the program keeps the control invariant, and the events.
LEMMA ControlNext ==
    ASSUME Control, IInv, [Next]_vars
    PROVE  Control' /\ EventsKeep
<1>1. ASSUME NEW p \in Task, NEW e \in FeedEvents, PublishEvent(p, e)
      PROVE  Control' /\ EventsKeep
  BY <1>1, ControlPublishes
<1>2. ASSUME NEW p \in Task, Step(p)
      PROVE  Control' /\ EventsKeep
  <2>1. CASE SaveAndTakeIn(p)
    BY <2>1, ControlSaves
  <2>2. CASE SaveFails(p)
    <3>1. At(p, "save") /\ events' = events /\ lock' = Released(p)
          /\ task' = [task EXCEPT ![p] = <<>>]
      BY <2>2 DEF SaveFails
    <3> QED
      BY <3>1, EventsRest, TaskEnds DEF Control
  <2>3. CASE AppendRecentEvent(p)
    <3>1. events' = events
      BY <2>3 DEF AppendRecentEvent
    <3> QED
      BY <2>3, <3>1, ControlJournals, EventsRest DEF Control
  <2>4. CASE Wake(p)
    <3>1. events' = events
      BY <2>4 DEF Wake
    <3> QED
      BY <2>4, <3>1, ControlWakes, EventsRest DEF Control
  <2>5. CASE ListAlerts(p)
    <3> DEFINE todo == {a \in enabled \cap Sourced(Current(p)) :
                           alert_matches(a, events[Current(p)])}
    <3>1. /\ At(p, "candidates") /\ Evaluate(p, todo) /\ lock' = lock /\ events' = events
      BY <2>5 DEF ListAlerts
    <3>2. todo \in SUBSET Alert
      BY PublicationAssumption DEF Sourced
    <3> HIDE DEF todo
    <3>3. Len(task[p]) = 1 /\ (lock = Released(p) \/ Len(task[p]) = 2)
      BY <3>1, StandsAt DEF Early, Holding
    <3>4. lock' = Released(p)
      BY <3>1, <3>3
    <3> QED
      BY <3>1, <3>2, <3>4, Evaluates, EventsRest DEF Control
  <2>6. CASE AcquireLock(p)
    <3>1. events' = events
      BY <2>6 DEF AcquireLock
    <3> QED
      BY <2>6, <3>1, ControlLocks, EventsRest DEF Control
  <2>7. CASE GetAlert(p)
    BY <2>7, ControlFetches
  <2>8. CASE RecordAlertTrigger(p)
    <3>1. /\ At(p, "record") /\ Evaluate(p, Head(task[p]).todo) /\ lock' = Released(p)
          /\ events' = events
      BY <2>8 DEF RecordAlertTrigger
    <3>2. Head(task[p]).todo \in SUBSET Alert
      <4>1. Head(task[p]) \in Frame
        BY <3>1, StandsAt
      <4> QED
        BY <4>1 DEF Frame
    <3> QED
      BY <3>1, <3>2, Evaluates, EventsRest DEF Control
  <2>9. CASE EvaluationFails(p)
    <3>1. /\ At(p, "candidates") \/ At(p, "fresh") \/ At(p, "record")
          /\ task' = [task EXCEPT ![p] = Tail(@)] /\ lock' = Released(p)
          /\ events' = events
      BY <2>9 DEF EvaluationFails
    <3>2. Len(task[p]) = 1 /\ Len(task[p]) > 0 /\ task[p] \in Seq(Frame)
      BY <3>1, StandsAt, StackShape DEF Early
    <3>3. Tail(task[p]) = <<>>
      BY <3>2, TailOfOne
    <3>4. task' = [task EXCEPT ![p] = <<>>]
      BY <3>1, <3>3
    <3> QED
      BY <3>1, <3>2, <3>4, EventsRest, TaskEnds DEF Control
  <2> QED
    BY <1>2, <2>1, <2>2, <2>3, <2>4, <2>5, <2>6, <2>7, <2>8, <2>9 DEF Step
<1>3. ASSUME NEW p \in Task, Cancel(p)
      PROVE  Control' /\ EventsKeep
  BY <1>3, ControlCancels
<1>4. CASE Tools \/ Registration \/ UNCHANGED vars
  <2>1. events' = events /\ task' = task /\ lock' = lock
    BY <1>4 DEF Tools, CreateAlert, EnableAlert, DisableAlert, Subscribe, SendLine, Disconnect,
                Registration, vars
  <2>2. EventsOK' /\ Id' = Id
    BY <2>1 DEF Control, EventsOK, Id
  <2>3. \A p \in Task : StackOK(p)'
    BY <2>1, <2>2 DEF Control, StackOK, Bottom
  <2>4. OnceOnly' /\ LocksOK' /\ CausesSettled'
    BY <2>1, <2>2 DEF Control, OnceOnly, LocksOK, Holds, Bottom, CausesSettled, EarlyAt
  <2> QED
    BY <2>1, <2>2, <2>3, <2>4, EventsRest DEF Control
<1>5. CASE Restart
  BY <1>5, ControlRestarts, EventsRest DEF Restart, Control
<1> QED
  BY <1>1, <1>2, <1>3, <1>4, <1>5 DEF Next

\* Nothing runs and nothing is locked at first.
LEMMA ControlInit == Init => Control
<1> SUFFICES ASSUME Init PROVE Control
  OBVIOUS
<1>1. /\ events = <<>> /\ Len(events) = 0 /\ events \in Seq(Event)
      /\ \A p \in Task : task[p] = <<>>
      /\ task \in [Task -> Seq(Frame)] /\ lock = [a \in Alert |-> None]
  BY DEF Init
<1>2. EventsOK
  <2>1. \A n \in Id : FALSE
    BY <1>1 DEF Id
  <2> QED
    BY <1>1, <2>1 DEF EventsOK
<1>3. \A p \in Task : task[p] \in Seq(Frame) /\ Len(task[p]) = 0
  BY <1>1
<1>4. \A p \in Task : StackOK(p) /\ ~EarlyAt(p) /\ \A a \in Alert : ~Holds(p, a)
  BY <1>3 DEF StackOK, EarlyAt, Holds
<1>5. LocksOK
  BY <1>1, <1>4, PublicationAssumption DEF LocksOK
<1>6. OnceOnly
  BY <1>3 DEF OnceOnly
<1> QED
  BY <1>1, <1>2, <1>4, <1>5, <1>6 DEF Control, CausesSettled

\* To the store every step is one of its transactions, or nothing: only saves and
\* registrations reach it.
LEMMA StoreStep ==
    ASSUME Control, [Next]_vars
    PROVE  [StoreNext]_storeVars
<1>1. ASSUME NEW p \in Task, At(p, "save"), SaveEvent(Current(p))
      PROVE  StoreNext
  <2>1. Current(p) \in Id
    BY <1>1, StandsAt
  <2>2. events[Current(p)] \in Event
    BY <2>1 DEF Control, EventsOK, Id
  <2>3. events[Current(p)].routing \in Routing
    BY <2>2 DEF Event
  <2> QED
    BY <1>1, <2>3 DEF SaveEvent, StoreNext
<1>2. ASSUME NEW p \in Task, NEW e \in FeedEvents, PublishEvent(p, e)
      PROVE  UNCHANGED storeVars
  BY <1>2 DEF PublishEvent
<1>3. ASSUME NEW p \in Task, Step(p)
      PROVE  StoreNext \/ UNCHANGED storeVars
  BY <1>1, <1>3 DEF Step, SaveAndTakeIn, SaveFails, AppendRecentEvent, Wake, ListAlerts,
                    AcquireLock, GetAlert, RecordAlertTrigger, EvaluationFails
<1>4. ASSUME NEW p \in Task, Cancel(p)
      PROVE  StoreNext \/ UNCHANGED storeVars
  BY <1>1, <1>4 DEF Cancel
<1>5. CASE Tools \/ Restart \/ UNCHANGED vars
  BY <1>5 DEF Tools, CreateAlert, EnableAlert, DisableAlert, Subscribe, SendLine, Disconnect,
              Restart, vars
<1>6. CASE Registration
  BY <1>6 DEF Registration, StoreNext
<1> QED
  BY <1>2, <1>3, <1>4, <1>5, <1>6 DEF Next

\* The invariants of control and of the store hold throughout.
THEOREM PublicationInvariance == Spec => [](Control /\ IInv)
<1>1. Init => Control /\ IInv
  BY ControlInit, InitInvariant DEF Init
<1>2. Control /\ IInv /\ [Next]_vars => (Control /\ IInv)'
  BY ControlNext, StoreStep, StepInvariant
<1> QED
  BY <1>1, <1>2, PTL DEF Spec

\* Publication uses the store as the store is specified, so what is proved of the
\* store holds of the running program.
THEOREM PublicationUsesStore == Spec => StoreSpec
<1>1. Init => StoreInit
  BY DEF Init
<1>2. Control /\ [Next]_vars => [StoreNext]_storeVars
  BY StoreStep
<1> QED
  BY <1>1, <1>2, PublicationInvariance, PTL DEF Spec, StoreSpec

\* No task waits for a lock while it holds one: whoever holds an alert's lock is about
\* to read or to record that alert, or is publishing its trigger, which is not
\* evaluated in turn.
THEOREM NobodyDeadlocks == Spec => []HoldersNeverWait
<1>1. ASSUME Control, NEW a \in Alert, lock[a] # None
      PROVE  ~At(lock[a], "lock")
  <2>1. PICK p \in Task : p = lock[a] /\ Holds(p, a)
    BY <1>1 DEF Control, LocksOK
  <2>2. SUFFICES ASSUME At(p, "lock") PROVE FALSE
    BY <2>1
  <2>3. Bottom(p) = task[p][1] /\ task[p][1].pc = "lock"
    BY <1>1, <2>2, StandsAt DEF Early
  <2> QED
    BY <2>1, <2>3 DEF Holds, Holding
<1>2. Control => HoldersNeverWait
  BY <1>1 DEF HoldersNeverWait
<1> QED
  BY <1>2, PublicationInvariance, PTL
-----------------------------------------------------------------------------
(* The orders of the history, of the journal and of the streams. *)

\* No event of an order was caused by a later one.
Ordered(es, o) ==
    /\ o \in Seq(1..Len(es))
    /\ \A i, j \in 1..Len(o) : i < j => es[o[i]].cause # o[j]

\* An event that has caused none yet may come last.
LEMMA OrderedAppend ==
    ASSUME NEW es, NEW o, Ordered(es, o), NEW x \in 1..Len(es),
           \A n \in 1..Len(es) : es[n].cause # x
    PROVE  /\ Ordered(es, Append(o, x)) /\ Append(o, x) # <<>>
           /\ Len(Append(o, x)) = Len(o) + 1 /\ Len(o) \in Nat
<1> DEFINE t == Append(o, x)
<1>1. o \in Seq(1..Len(es)) /\ Len(o) \in Nat
  BY DEF Ordered
<1>2. /\ t \in Seq(1..Len(es)) /\ Len(t) = Len(o) + 1 /\ t # <<>>
      /\ \A i \in 1..Len(o) : t[i] = o[i]
      /\ t[Len(o) + 1] = x
  BY <1>1, AppendProperties
<1> HIDE DEF t
<1>3. ASSUME NEW i \in 1..Len(t), NEW j \in 1..Len(t), i < j
      PROVE  es[t[i]].cause # t[j]
  <2>1. i \in 1..Len(o) /\ o[i] \in 1..Len(es) /\ t[i] = o[i]
    BY SMTT(30), <1>1, <1>2, <1>3
  <2>2. CASE j = Len(o) + 1
    BY <1>2, <2>1, <2>2
  <2>3. CASE j # Len(o) + 1
    <3>1. j \in 1..Len(o)
      BY <1>1, <1>2, <2>3
    <3>2. t[j] = o[j]
      BY <1>2, <3>1
    <3> QED
      BY <1>3, <2>1, <3>1, <3>2 DEF Ordered
  <2> QED
    BY <2>2, <2>3
<1> QED
  BY <1>1, <1>2, <1>3 DEF Ordered, t

\* The oldest goes when there are too many.
LEMMA OrderedBounded ==
    ASSUME NEW es, NEW o, Ordered(es, o), o # <<>>, Len(o) <= Capacity + 1
    PROVE  Ordered(es, Bounded(o)) /\ Len(Bounded(o)) <= Capacity
<1> DEFINE t == Tail(o)
<1>1. o \in Seq(1..Len(es)) /\ Len(o) \in Nat /\ Capacity \in Nat
  BY PublicationAssumption DEF Ordered
<1>2. /\ t \in Seq(1..Len(es)) /\ Len(t) = Len(o) - 1
      /\ \A i \in 1..Len(t) : t[i] = o[i + 1]
  BY <1>1, HeadTailProperties
<1> HIDE DEF t
<1>3. ASSUME NEW i \in 1..Len(t), NEW j \in 1..Len(t), i < j
      PROVE  es[t[i]].cause # t[j]
  <2>1. i + 1 \in 1..Len(o) /\ j + 1 \in 1..Len(o) /\ i + 1 < j + 1
    BY <1>1, <1>2, <1>3
  <2>2. t[i] = o[i + 1] /\ t[j] = o[j + 1]
    BY <1>2
  <2> QED
    BY <2>1, <2>2 DEF Ordered
<1>4. Ordered(es, t)
  BY <1>2, <1>3 DEF Ordered
<1>5. CASE Len(o) <= Capacity
  BY <1>5 DEF Bounded
<1>6. CASE ~(Len(o) <= Capacity)
  <2>1. Len(t) <= Capacity
    BY <1>1, <1>2
  <2> QED
    BY <1>4, <1>6, <2>1 DEF Bounded, t
<1> QED
  BY <1>5, <1>6

\* More events change nothing for those there are.
LEMMA OrderedGrows ==
    ASSUME NEW es, NEW fs, NEW o, Ordered(es, o), Len(es) \in Nat, Len(fs) \in Nat,
           Len(es) <= Len(fs), \A n \in 1..Len(es) : fs[n].cause = es[n].cause
    PROVE  Ordered(fs, o)
<1>1. o \in Seq(1..Len(es)) /\ 1..Len(es) \subseteq 1..Len(fs)
  BY DEF Ordered
<1>2. o \in Seq(1..Len(fs))
  BY <1>1, SeqMonotonic
<1>3. \A i \in 1..Len(o) : o[i] \in 1..Len(es)
  BY <1>1
<1> QED
  BY <1>2, <1>3 DEF Ordered

\* What a connection u has of the broadcasts b: those from where it started, the sent
\* ones first, without a gap.
Stream(u, b) ==
    /\ u \in [open : BOOLEAN, start : Nat, queue : Seq(Nat), sent : Seq(Nat)]
    /\ Len(u.queue) <= QueueSize
    /\ u.start + Len(u.sent) + Len(u.queue) <= Len(b)
    /\ \A i \in 1..Len(u.sent) : u.sent[i] = b[u.start + i]
    /\ \A i \in 1..Len(u.queue) : u.queue[i] = b[u.start + Len(u.sent) + i]

UpToDate(u, b) == u.start + Len(u.sent) + Len(u.queue) = Len(b)

\* A broadcast that is not for the connection.
LEMMA StreamMisses ==
    ASSUME NEW u, NEW b \in Seq(Nat), Stream(u, b), NEW x \in Nat
    PROVE  Stream(u, Append(b, x))
<1> DEFINE c == Append(b, x)
<1>1. Len(c) = Len(b) + 1 /\ \A i \in 1..Len(b) : c[i] = b[i]
  BY AppendProperties
<1> HIDE DEF c
<1>2. u.start \in Nat /\ u.queue \in Seq(Nat) /\ u.sent \in Seq(Nat)
  BY DEF Stream
<1>3. PICK n \in Nat, q \in Nat, l \in Nat, k \in Nat :
         n = Len(u.sent) /\ q = Len(u.queue) /\ l = Len(b) /\ k = u.start
  BY <1>2
<1>4. k + n + q <= l
  BY <1>3 DEF Stream
<1>5. /\ \A i \in 1..n : k + i \in 1..l
      /\ \A i \in 1..q : k + n + i \in 1..l
      /\ k + n + q <= l + 1
  BY <1>4
<1> QED
  BY <1>1, <1>3, <1>5 DEF Stream, c

\* A broadcast that goes into its queue.
LEMMA StreamReceives ==
    ASSUME NEW u, NEW b \in Seq(Nat), Stream(u, b), NEW x \in Nat,
           UpToDate(u, b), Len(u.queue) < QueueSize, QueueSize \in Nat
    PROVE  /\ Stream([u EXCEPT !.queue = Append(@, x)], Append(b, x))
           /\ UpToDate([u EXCEPT !.queue = Append(@, x)], Append(b, x))
           /\ [u EXCEPT !.queue = Append(@, x)].open = u.open
<1> DEFINE c == Append(b, x)
           r == Append(u.queue, x)
           v == [u EXCEPT !.queue = r]
<1>1. /\ Len(c) = Len(b) + 1 /\ \A i \in 1..Len(b) : c[i] = b[i]
      /\ c[Len(b) + 1] = x
  BY AppendProperties
<1>2. /\ u \in [open : BOOLEAN, start : Nat, queue : Seq(Nat), sent : Seq(Nat)]
      /\ u.start \in Nat /\ u.queue \in Seq(Nat) /\ u.sent \in Seq(Nat)
  BY DEF Stream
<1>3. PICK n \in Nat, q \in Nat, l \in Nat, k \in Nat :
         n = Len(u.sent) /\ q = Len(u.queue) /\ l = Len(b) /\ k = u.start
  BY <1>2
<1>4. k + n + q = l /\ q < QueueSize
  BY <1>3 DEF UpToDate
<1>5. /\ r \in Seq(Nat) /\ Len(r) = q + 1 /\ r[q + 1] = x
      /\ \A i \in 1..q : r[i] = u.queue[i]
  BY <1>2, <1>3, AppendProperties
<1> HIDE DEF c, r
<1>6. /\ v \in [open : BOOLEAN, start : Nat, queue : Seq(Nat), sent : Seq(Nat)]
      /\ v.start = u.start /\ v.sent = u.sent /\ v.queue = r /\ v.open = u.open
  BY <1>2, <1>5
<1>7. v = [u EXCEPT !.queue = Append(@, x)]
  BY <1>2 DEF r
<1> HIDE DEF v
<1>8. k + n + (q + 1) = l + 1 /\ q + 1 <= QueueSize
  BY <1>4
<1>9. ASSUME NEW i \in 1..n PROVE v.sent[i] = c[k + i]
  <2>1. k + i \in 1..l
    BY <1>4
  <2>2. u.sent[i] = b[k + i]
    BY <1>3 DEF Stream
  <2> QED
    BY <1>1, <1>3, <1>6, <2>1, <2>2
<1>10. ASSUME NEW i \in 1..(q + 1) PROVE v.queue[i] = c[k + n + i]
  <2>1. CASE i = q + 1
    <3>1. k + n + i = l + 1
      BY <1>4, <2>1
    <3> QED
      BY <1>1, <1>3, <1>5, <1>6, <2>1, <3>1
  <2>2. CASE i # q + 1
    <3>1. i \in 1..q /\ k + n + i \in 1..l
      BY <1>4, <2>2
    <3>2. u.queue[i] = b[k + n + i]
      BY <1>3, <3>1 DEF Stream
    <3> QED
      BY <1>1, <1>3, <1>5, <1>6, <3>1, <3>2
  <2> QED
    BY <2>1, <2>2
<1>11. Stream(v, c)
  BY SMTT(30), <1>1, <1>3, <1>5, <1>6, <1>8, <1>9, <1>10 DEF Stream
<1>12. UpToDate(v, c)
  BY <1>1, <1>3, <1>5, <1>6, <1>8 DEF UpToDate
<1> QED
  BY <1>6, <1>7, <1>11, <1>12 DEF c

\* A line that goes from the queue to the client.
LEMMA StreamSends ==
    ASSUME NEW u, NEW b \in Seq(Nat), Stream(u, b), u.queue # <<>>, QueueSize \in Nat
    PROVE  \E v : /\ v = [u EXCEPT !.queue = Tail(@), !.sent = Append(@, Head(u.queue))]
                  /\ Stream(v, b) /\ v.open = u.open
                  /\ UpToDate(u, b) => UpToDate(v, b)
<1> DEFINE r == Tail(u.queue)
           s == Append(u.sent, Head(u.queue))
           v == [u EXCEPT !.queue = Tail(@), !.sent = Append(@, Head(u.queue))]
<1> HIDE DEF r, s, v
<1>2. /\ u \in [open : BOOLEAN, start : Nat, queue : Seq(Nat), sent : Seq(Nat)]
      /\ u.start \in Nat /\ u.queue \in Seq(Nat) /\ u.sent \in Seq(Nat)
  BY DEF Stream
<1>3. PICK n \in Nat, q \in Nat, l \in Nat, k \in Nat :
         n = Len(u.sent) /\ q = Len(u.queue) /\ l = Len(b) /\ k = u.start
  BY <1>2
<1>4. k + n + q <= l /\ q # 0 /\ q <= QueueSize
  BY <1>2, <1>3, EmptySeq DEF Stream
<1>5. Head(u.queue) \in Nat /\ Head(u.queue) = u.queue[1]
  BY <1>2, HeadTailProperties
<1>6. /\ r \in Seq(Nat) /\ Len(r) = q - 1
      /\ \A i \in 1..(q - 1) : r[i] = u.queue[i + 1]
  BY <1>2, <1>3, HeadTailProperties DEF r
<1>7. /\ s \in Seq(Nat) /\ Len(s) = n + 1 /\ s[n + 1] = u.queue[1]
      /\ \A i \in 1..n : s[i] = u.sent[i]
  BY <1>2, <1>3, <1>5, AppendProperties DEF s
<1>8. v = [u EXCEPT !.queue = r, !.sent = s]
  BY <1>2 DEF r, s, v
<1>9. /\ v \in [open : BOOLEAN, start : Nat, queue : Seq(Nat), sent : Seq(Nat)]
      /\ v.start = u.start /\ v.sent = s /\ v.queue = r /\ v.open = u.open
  BY <1>2, <1>6, <1>7, <1>8
<1>10. k + (n + 1) + (q - 1) = k + n + q /\ q - 1 <= QueueSize
  BY <1>4
<1>11. ASSUME NEW i \in 1..(n + 1) PROVE v.sent[i] = b[k + i]
  <2>1. CASE i = n + 1
    <3>1. 1 \in 1..q
      BY <1>4
    <3>3. k + n + 1 = k + i
      BY <2>1
    <3>2. u.queue[1] = b[k + n + 1]
      BY <1>3, <3>1 DEF Stream
    <3> QED
      BY <1>7, <1>9, <2>1, <3>2, <3>3
  <2>2. CASE i # n + 1
    <3>1. i \in 1..n
      BY <2>2
    <3>2. u.sent[i] = b[k + i]
      BY <1>3, <3>1 DEF Stream
    <3> QED
      BY <1>7, <1>9, <3>1, <3>2
  <2> QED
    BY <2>1, <2>2
<1>12. ASSUME NEW i \in 1..(q - 1) PROVE v.queue[i] = b[k + (n + 1) + i]
  <2>1. i + 1 \in 1..q /\ k + n + (i + 1) = k + (n + 1) + i
    BY <1>4
  <2>2. u.queue[i + 1] = b[k + n + (i + 1)]
    BY <1>3, <2>1 DEF Stream
  <2> QED
    BY <1>6, <1>9, <2>1, <2>2
<1> QED
  <2>1. k + (n + 1) + (q - 1) <= l
    BY <1>4, <1>10
  <2>2. UpToDate(u, b) => k + (n + 1) + (q - 1) = l
    BY <1>3, <1>10 DEF UpToDate
  <2>3. Stream(v, b)
    BY <1>3, <1>6, <1>7, <1>9, <1>10, <1>11, <1>12, <2>1 DEF Stream
  <2>4. UpToDate(u, b) => UpToDate(v, b)
    BY <1>3, <1>6, <1>7, <1>9, <2>2 DEF UpToDate
  <2> QED
    BY <1>9, <2>3, <2>4 DEF v

\* What the connection has is a prefix of what it should have, and all of it when it is
\* up to date.
Line(u) == u.sent \o u.queue
Since(u, b) == SubSeq(b, u.start + 1, Len(b))

\* What a subscriber was sent and has queued continues from where it subscribed.
LEMMA StreamIsPrefix ==
    ASSUME NEW u, NEW b \in Seq(Nat), Stream(u, b)
    PROVE  /\ IsPrefix(Line(u), Since(u, b))
           /\ UpToDate(u, b) => Line(u) = Since(u, b)
<1>1. /\ u.start \in Nat /\ u.queue \in Seq(Nat) /\ u.sent \in Seq(Nat)
  BY DEF Stream
<1>2. PICK n \in Nat, q \in Nat, l \in Nat, k \in Nat :
         n = Len(u.sent) /\ q = Len(u.queue) /\ l = Len(b) /\ k = u.start
  BY <1>1
<1>3. k + n + q <= l
  BY <1>2 DEF Stream
<1>4. /\ Line(u) \in Seq(Nat) /\ Len(Line(u)) = n + q
      /\ \A i \in 1..(n + q) : Line(u)[i] = b[k + i]
  <2>1. Line(u) \in Seq(Nat) /\ Len(Line(u)) = n + q
    BY <1>1, <1>2 DEF Line
  <2>2. ASSUME NEW i \in 1..n PROVE Line(u)[i] = b[k + i]
    <3>1. i \in 1..(n + q) /\ i <= n
      OBVIOUS
    <3>2. Line(u)[i] = IF i <= n THEN u.sent[i] ELSE u.queue[i - n]
      BY <1>1, <1>2, <3>1, ConcatProperties DEF Line
    <3> QED
      BY <1>2, <3>1, <3>2 DEF Stream
  <2>3. ASSUME NEW i \in (n + 1)..(n + q) PROVE Line(u)[i] = b[k + i]
    <3>1. Line(u)[i] = u.queue[i - n]
      BY <1>1, <1>2 DEF Line
    <3>2. i - n \in 1..q /\ k + n + (i - n) = k + i
      OBVIOUS
    <3>3. u.queue[i - n] = b[k + n + (i - n)]
      BY <1>2, <3>2 DEF Stream
    <3> QED
      BY <3>1, <3>2, <3>3
  <2>4. \A i \in 1..(n + q) : i \in 1..n \/ i \in (n + 1)..(n + q)
    OBVIOUS
  <2> QED
    BY <2>1, <2>2, <2>3, <2>4
<1>5. /\ Since(u, b) \in Seq(Nat) /\ Len(Since(u, b)) = l - k
      /\ \A i \in 1..(l - k) : Since(u, b)[i] = b[k + i]
  <2>1. k + 1 \in Int /\ l \in Int /\ (k + 1 <= l => k + 1 \in 1..Len(b) /\ l \in 1..Len(b))
    BY <1>2
  <2>2. Since(u, b) = SubSeq(b, k + 1, l)
    BY <1>2 DEF Since
  <2>3. \A i \in (k + 1)..l : b[i] \in Nat
    BY <1>2
  <2>4. /\ SubSeq(b, k + 1, l) \in Seq(Nat)
        /\ Len(SubSeq(b, k + 1, l)) = IF k + 1 <= l THEN l - (k + 1) + 1 ELSE 0
        /\ \A i \in 1..(l - (k + 1) + 1) : SubSeq(b, k + 1, l)[i] = b[(k + 1) + i - 1]
    BY <2>1, <2>3, SubSeqProperties
  <2>5. /\ (IF k + 1 <= l THEN l - (k + 1) + 1 ELSE 0) = l - k
        /\ l - (k + 1) + 1 = l - k
        /\ \A i \in 1..(l - k) : (k + 1) + i - 1 = k + i
    BY <1>3
  <2> QED
    BY <2>2, <2>4, <2>5
<1>6. UpToDate(u, b) => Line(u) = Since(u, b)
  <2> SUFFICES ASSUME UpToDate(u, b) PROVE Line(u) = Since(u, b)
    OBVIOUS
  <2>0. k + n + q = l
    BY <1>2 DEF UpToDate
  <2>1. n + q = l - k
    BY <2>0
  <2>2. Len(Line(u)) = Len(Since(u, b)) /\ \A i \in 1..Len(Line(u)) : Line(u)[i] = Since(u, b)[i]
    BY <1>4, <1>5, <2>1
  <2> QED
    BY <1>4, <1>5, <2>2, SeqEqual
<1>7. Len(Line(u)) <= Len(Since(u, b))
  BY <1>3, <1>4, <1>5
<1>8. SubSeq(Line(u), 1, Len(Line(u))) = SubSeq(Since(u, b), 1, Len(Line(u)))
  <2> DEFINE x == SubSeq(Since(u, b), 1, n + q)
  <2>1. SubSeq(Line(u), 1, Len(Line(u))) = Line(u)
    BY <1>4, SubSeqFull
  <2>2. \A i \in 1..(n + q) : Since(u, b)[i] \in Nat /\ Since(u, b)[i] = Line(u)[i]
    <3> SUFFICES ASSUME NEW i \in 1..(n + q)
                 PROVE  Since(u, b)[i] \in Nat /\ Since(u, b)[i] = Line(u)[i]
      OBVIOUS
    <3>1. i \in 1..(l - k)
      BY <1>3
    <3>2. Since(u, b)[i] = b[k + i] /\ Line(u)[i] = b[k + i]
      BY <1>4, <1>5, <3>1
    <3>3. Line(u)[i] \in Nat
      BY <1>4
    <3> QED
      BY <3>2, <3>3
  <2>3. /\ x \in Seq(Nat) /\ Len(x) = IF 1 <= n + q THEN n + q - 1 + 1 ELSE 0
        /\ \A i \in 1..(n + q - 1 + 1) : x[i] = Since(u, b)[1 + i - 1]
    BY <2>2, SubSeqProperties
  <2>4. n + q - 1 + 1 = n + q /\ (IF 1 <= n + q THEN n + q - 1 + 1 ELSE 0) = n + q
        /\ \A i \in 1..(n + q) : 1 + i - 1 = i
    OBVIOUS
  <2> HIDE DEF x
  <2>5. Len(x) = Len(Line(u)) /\ \A i \in 1..Len(x) : x[i] = Line(u)[i]
    BY SMTT(30), <1>4, <2>2, <2>3, <2>4
  <2>6. x = Line(u)
    BY <1>4, <2>3, <2>5, SeqEqual
  <2> QED
    BY <1>4, <2>1, <2>6 DEF x
<1> QED
  BY <1>6, <1>7, <1>8 DEF IsPrefix


Orders ==
    /\ Ordered(events, _event_history) /\ Len(_event_history) <= Capacity
    /\ Ordered(events, recent_events) /\ Len(recent_events) <= Capacity
    /\ Ordered(events, broadcasts)

\* An event that has caused none.
Settled(x) == x \in Id /\ \A n \in Id : events[n].cause # x

\* The event of a publication before its evaluation.
LEMMA EarlyIsSettled ==
    ASSUME Control, EventsKeep, Len(events') = Len(events), NEW p \in Task, NEW pc \in Early,
           At(p, pc), NEW x, x = Current(p)
    PROVE  Settled(x)'
<1>1. EarlyAt(p) /\ x = task[p][1].id /\ x \in Id
  BY StandsAt DEF EarlyAt
<1>2. \A n \in Id : events[n].cause # x
  BY <1>1 DEF Control, CausesSettled
<1>3. Id' = Id
  BY DEF Id
<1> QED
  BY <1>1, <1>2, <1>3 DEF Settled, EventsKeep

\* The event of a publication that begins.
LEMMA NewIsSettled ==
    ASSUME Control, NEW p \in Task, NEW e \in FeedEvents, PublishEvent(p, e),
           NEW x, x = Len(events) + 1
    PROVE  Settled(x)'
<1> DEFINE v == [sequence |-> 0, persistent |-> e.persistent, routing |-> e.routing,
                 type |-> e.type, data |-> e.data, alert |-> None, cause |-> 0]
<1>1. v \in Event /\ v.cause = 0 /\ v.alert = None /\ v.persistent = e.persistent
  BY PublicationAssumption DEF Event
<1>2. events' = Append(events, v)
  BY DEF PublishEvent
<1> HIDE DEF v
<1>3. EventsOK /\ Len(events) \in Nat /\ 0 <= Len(events)
  BY DEF Control, EventsOK
<1>4. /\ EventsKeep /\ x \in Id' /\ events'[x] = v
      /\ \A n \in Id' : n \in Id \/ n = x
  BY <1>1, <1>2, <1>3, EventAdded
<1>5. ASSUME NEW n \in Id PROVE events'[n].cause # x
  <2>1. events[n] \in Event
    BY <1>3 DEF EventsOK, Id
  <2>2. events'[n].cause = events[n].cause /\ events[n].cause < n /\ events[n].cause \in Nat
    BY <1>3, <1>4, <2>1 DEF EventsKeep, EventsOK, Event
  <2> QED
    BY <1>3, <2>2 DEF Id
<1>6. v.cause # x
  BY <1>1, <1>3
<1> QED
  BY <1>4, <1>5, <1>6 DEF Settled

\* How each of the orders may change in a step.
LEMMA OrdersMove ==
    ASSUME Control, IInv, [Next]_vars
    PROVE  /\ \/ _event_history' = _event_history
              \/ _event_history' = recent_events
              \/ \E x : Settled(x)' /\ _event_history' = Bounded(Append(_event_history, x))
           /\ \/ recent_events' = recent_events
              \/ \E x : Settled(x)' /\ recent_events' = Bounded(Append(recent_events, x))
           /\ \/ UNCHANGED <<broadcasts, subscriber, _subscribers>>
              \/ \E x : Settled(x)' /\ BroadcastEvent(x)
              \/ broadcasts' = broadcasts /\ Tools
              \/ broadcasts' = broadcasts /\ Restart
<1>1. ASSUME NEW p \in Task, NEW pc \in Early, At(p, pc), Len(events') = Len(events)
      PROVE  \E x : x = Current(p) /\ Settled(x)'
  BY <1>1, ControlNext, EarlyIsSettled
<1>2. ASSUME NEW p \in Task, NEW e \in FeedEvents, PublishEvent(p, e)
      PROVE  /\ \/ _event_history' = _event_history
                \/ \E x : Settled(x)' /\ _event_history' = Bounded(Append(_event_history, x))
             /\ UNCHANGED <<recent_events, broadcasts, subscriber, _subscribers>>
  <2>1. \E x : x = Len(events) + 1 /\ Settled(x)'
    BY <1>2, NewIsSettled
  <2> QED
    BY <1>2, <2>1 DEF PublishEvent, TakeIn, streamVars
<1>3. ASSUME NEW p \in Task, At(p, "save"), SaveEvent(Current(p))
      PROVE  Len(events') = Len(events)
  <2>1. Current(p) \in Id
    BY <1>3, StandsAt
  <2>2. nextSequence \in Nat
    BY EventStoreAssumption DEF IInv, StoreTypeOK
  <2> QED
    BY <1>3, <2>1, <2>2, EventsSaved DEF SaveEvent, Control
<1>4. ASSUME NEW p \in Task, SaveAndTakeIn(p)
      PROVE  /\ \E x : Settled(x)' /\ _event_history' = Bounded(Append(_event_history, x))
             /\ UNCHANGED <<recent_events, broadcasts, subscriber, _subscribers>>
  <2>1. \E x : x = Current(p) /\ Settled(x)'
    BY <1>1, <1>3, <1>4 DEF SaveAndTakeIn, Early
  <2> QED
    BY <1>4, <2>1 DEF SaveAndTakeIn, TakeIn, streamVars
<1>5. ASSUME NEW p \in Task, AppendRecentEvent(p)
      PROVE  /\ \/ recent_events' = recent_events
                \/ \E x : Settled(x)' /\ recent_events' = Bounded(Append(recent_events, x))
             /\ UNCHANGED <<_event_history, broadcasts, subscriber, _subscribers>>
  <2>1. \E x : x = Current(p) /\ Settled(x)'
    BY <1>1, <1>5 DEF AppendRecentEvent, Early
  <2> QED
    BY <1>5, <2>1 DEF AppendRecentEvent, streamVars
<1>6. ASSUME NEW p \in Task, Wake(p)
      PROVE  /\ \E x : Settled(x)' /\ BroadcastEvent(x)
             /\ UNCHANGED <<_event_history, recent_events>>
  <2>1. \E x : x = Current(p) /\ Settled(x)'
    BY <1>1, <1>6 DEF Wake, Early
  <2> QED
    BY <1>6, <2>1 DEF Wake, memoryVars
<1>7. ASSUME NEW p \in Task,
             \/ SaveFails(p) \/ ListAlerts(p) \/ AcquireLock(p) \/ GetAlert(p)
             \/ RecordAlertTrigger(p) \/ EvaluationFails(p)
      PROVE  UNCHANGED <<_event_history, recent_events, broadcasts, subscriber, _subscribers>>
  BY <1>7 DEF SaveFails, ListAlerts, AcquireLock, GetAlert, RecordAlertTrigger,
              EvaluationFails, memoryVars, streamVars
<1>8. ASSUME NEW p \in Task, Cancel(p)
      PROVE  /\ \/ recent_events' = recent_events
                \/ \E x : Settled(x)' /\ recent_events' = Bounded(Append(recent_events, x))
             /\ UNCHANGED <<_event_history, broadcasts, subscriber, _subscribers>>
  <2>1. CASE recent_events' = recent_events
    BY <1>8, <2>1 DEF Cancel, streamVars
  <2>2. CASE /\ At(p, "journal") /\ events' = events
             /\ recent_events' = Bounded(Append(recent_events, Current(p)))
    <3>1. \E x : x = Current(p) /\ Settled(x)'
      BY <1>1, <2>2 DEF Early
    <3> QED
      BY <1>8, <2>2, <3>1 DEF Cancel, streamVars
  <2> QED
    BY <1>8, <2>1, <2>2 DEF Cancel
<1>9. CASE Tools
  BY <1>9 DEF Tools, CreateAlert, EnableAlert, DisableAlert, Subscribe, SendLine, Disconnect,
              memoryVars, streamVars
<1>10. CASE Registration \/ UNCHANGED vars
  BY <1>10 DEF Registration, vars, memoryVars, streamVars
<1>11. CASE Restart
  BY <1>11 DEF Restart, Restored
<1> QED
  BY <1>2, <1>4, <1>5, <1>6, <1>7, <1>8, <1>9, <1>10, <1>11 DEF Next, Step

\* History, journal and broadcasts keep causes before triggers at every step.
LEMMA OrdersNext ==
    ASSUME Control, IInv, Orders, [Next]_vars
    PROVE  Orders'
<1>1. EventsKeep /\ EventsOK
  BY ControlNext DEF Control
<1>2. ASSUME NEW o, Ordered(events, o)
      PROVE  Ordered(events', o)
  BY <1>1, <1>2, OrderedGrows DEF EventsKeep, EventsOK, Id
<1>3. ASSUME NEW o, Ordered(events, o), NEW x, Settled(x)'
      PROVE  Ordered(events', Append(o, x))
  <2>1. Ordered(events', o)
    BY <1>2, <1>3
  <2>2. x \in 1..Len(events') /\ \A n \in 1..Len(events') : events'[n].cause # x
    BY <1>3 DEF Settled, Id
  <2> QED
    BY <2>1, <2>2, OrderedAppend
<1>4. ASSUME NEW o, Ordered(events, o), Len(o) <= Capacity, NEW x, Settled(x)'
      PROVE  Ordered(events', Bounded(Append(o, x))) /\ Len(Bounded(Append(o, x))) <= Capacity
  <2>1. Ordered(events', o)
    BY <1>2, <1>4
  <2>2. x \in 1..Len(events') /\ \A n \in 1..Len(events') : events'[n].cause # x
    BY <1>4 DEF Settled, Id
  <2>3. /\ Ordered(events', Append(o, x)) /\ Append(o, x) # <<>>
        /\ Len(Append(o, x)) = Len(o) + 1 /\ Len(o) \in Nat
    BY <2>1, <2>2, OrderedAppend
  <2>4. Len(Append(o, x)) <= Capacity + 1
    BY <1>4, <2>3, PublicationAssumption
  <2> QED
    BY <2>3, <2>4, OrderedBounded
<1>5. Ordered(events', _event_history') /\ Len(_event_history') <= Capacity
  BY <1>2, <1>4, OrdersMove DEF Orders
<1>6. Ordered(events', recent_events') /\ Len(recent_events') <= Capacity
  BY <1>2, <1>4, OrdersMove DEF Orders
<1>7. Ordered(events', broadcasts')
  <2>1. \/ broadcasts' = broadcasts
        \/ \E x : Settled(x)' /\ broadcasts' = Append(broadcasts, x)
    <3>1. \/ broadcasts' = broadcasts
          \/ \E x : Settled(x)' /\ BroadcastEvent(x)
      BY OrdersMove
    <3> QED
      BY <3>1 DEF BroadcastEvent
  <2>2. CASE broadcasts' = broadcasts
    BY <1>2, <2>2 DEF Orders
  <2>3. CASE \E x : Settled(x)' /\ broadcasts' = Append(broadcasts, x)
    BY <1>3, <2>3 DEF Orders
  <2> QED
    BY <2>1, <2>2, <2>3
<1> QED
  BY <1>5, <1>6, <1>7 DEF Orders, Ordered

-----------------------------------------------------------------------------
(* The SSE connections. *)

Streams ==
    /\ subscriber \in [Subscriber ->
           [open : BOOLEAN, start : Nat, queue : Seq(Nat), sent : Seq(Nat)]]
    /\ \A s \in Subscriber :
          /\ Stream(subscriber[s], broadcasts)
          /\ ~subscriber[s].open => subscriber[s] = Closed
    /\ _subscribers \subseteq {s \in Subscriber : subscriber[s].open}
    /\ \A s \in _subscribers : UpToDate(subscriber[s], broadcasts)

\* A closed connection has nothing of any broadcasts.
LEMMA ClosedStream ==
    ASSUME NEW b \in Seq(Nat)
    PROVE  Stream(Closed, b) /\ ~Closed.open
<1>1. /\ Closed \in [open : BOOLEAN, start : Nat, queue : Seq(Nat), sent : Seq(Nat)]
      /\ Closed.start = 0 /\ Closed.queue = <<>> /\ Closed.sent = <<>> /\ ~Closed.open
  BY DEF Closed
<1>2. Len(Closed.queue) = 0 /\ Len(Closed.sent) = 0
  BY <1>1, EmptySeq
<1>3. Len(b) \in Nat /\ 0 <= QueueSize
  BY PublicationAssumption
<1> QED
  BY <1>1, <1>2, <1>3 DEF Stream

\* A connection that opens is up to date.
LEMMA OpenedStream ==
    ASSUME NEW b \in Seq(Nat)
    PROVE  \E v : /\ v = [Closed EXCEPT !.open = TRUE, !.start = Len(b)]
                  /\ Stream(v, b) /\ UpToDate(v, b) /\ v.open
<1> DEFINE v == [Closed EXCEPT !.open = TRUE, !.start = Len(b)]
<1>0. Len(b) \in Nat /\ 0 <= QueueSize
  BY PublicationAssumption
<1>1. /\ v \in [open : BOOLEAN, start : Nat, queue : Seq(Nat), sent : Seq(Nat)]
      /\ v.start = Len(b) /\ v.queue = <<>> /\ v.sent = <<>> /\ v.open
  <2>1. /\ Closed \in [open : BOOLEAN, start : Nat, queue : Seq(Nat), sent : Seq(Nat)]
        /\ Closed.queue = <<>> /\ Closed.sent = <<>>
    BY DEF Closed
  <2> QED
    BY <1>0, <2>1
<1> HIDE DEF v
<1>2. Len(v.queue) = 0 /\ Len(v.sent) = 0
  BY <1>1, EmptySeq
<1>3. Stream(v, b)
  BY <1>0, <1>1, <1>2 DEF Stream
<1>4. UpToDate(v, b)
  BY <1>0, <1>1, <1>2 DEF UpToDate
<1> QED
  BY <1>1, <1>3, <1>4 DEF v

\* A broadcast reaches every registered queue that has room and ends the others'
\* registration.
LEMMA StreamsBroadcast ==
    ASSUME Streams, broadcasts \in Seq(Nat), NEW x \in Nat, BroadcastEvent(x)
    PROVE  Streams'
<1>1. /\ broadcasts' = Append(broadcasts, x)
      /\ _subscribers' = {s \in _subscribers : ~Full(s)}
      /\ subscriber' = [s \in Subscriber |->
             IF s \in _subscribers /\ ~Full(s)
             THEN [subscriber[s] EXCEPT !.queue = Append(@, x)]
             ELSE subscriber[s]]
  BY DEF BroadcastEvent
<1>2. ASSUME NEW s \in Subscriber
      PROVE  /\ Stream(subscriber'[s], broadcasts')
             /\ subscriber'[s].open = subscriber[s].open
             /\ ~subscriber[s].open => subscriber'[s] = subscriber[s]
             /\ s \in _subscribers' => UpToDate(subscriber'[s], broadcasts')
  <2>1. Stream(subscriber[s], broadcasts)
    BY DEF Streams
  <2>2. CASE s \in _subscribers /\ ~Full(s)
    <3> DEFINE u == subscriber[s]
    <3>1. /\ UpToDate(u, broadcasts) /\ u.open
      BY <2>2 DEF Streams
    <3>2. Len(u.queue) < QueueSize /\ QueueSize \in Nat
      <4>1. Len(u.queue) <= QueueSize /\ Len(u.queue) # QueueSize /\ u.queue \in Seq(Nat)
        BY <2>1, <2>2 DEF Stream, Full
      <4>2. Len(u.queue) \in Nat /\ QueueSize \in Nat
        BY <4>1, PublicationAssumption
      <4> QED
        BY <4>1, <4>2
    <3>3. subscriber'[s] = [u EXCEPT !.queue = Append(@, x)]
      BY <1>1, <2>2
    <3> HIDE DEF u
    <3>4. Stream(u, broadcasts)
      BY <2>1 DEF u
    <3>5. /\ Stream([u EXCEPT !.queue = Append(@, x)], Append(broadcasts, x))
          /\ UpToDate([u EXCEPT !.queue = Append(@, x)], Append(broadcasts, x))
          /\ [u EXCEPT !.queue = Append(@, x)].open = u.open
      BY <3>1, <3>2, <3>4, StreamReceives
    <3> QED
      BY <1>1, <3>1, <3>3, <3>5 DEF u
  <2>3. CASE ~(s \in _subscribers /\ ~Full(s))
    <3>1. subscriber'[s] = subscriber[s] /\ s \notin _subscribers'
      BY <1>1, <2>3
    <3>2. Stream(subscriber[s], Append(broadcasts, x))
      BY <2>1, StreamMisses
    <3> QED
      BY <1>1, <3>1, <3>2
  <2> QED
    BY <2>2, <2>3
<1>3. subscriber' \in [Subscriber ->
          [open : BOOLEAN, start : Nat, queue : Seq(Nat), sent : Seq(Nat)]]
  <2>1. \A s \in Subscriber :
           subscriber'[s] \in [open : BOOLEAN, start : Nat, queue : Seq(Nat), sent : Seq(Nat)]
    BY <1>2 DEF Stream
  <2>2. subscriber' = [s \in Subscriber |-> subscriber'[s]]
    BY <1>1
  <2> QED
    BY <2>1, <2>2
<1>4. _subscribers' \subseteq {s \in Subscriber : subscriber'[s].open}
  BY <1>1, <1>2 DEF Streams
<1>5. \A s \in _subscribers' : UpToDate(subscriber'[s], broadcasts')
  BY <1>2, <1>4
<1>6. \A s \in Subscriber : ~subscriber'[s].open => subscriber'[s] = Closed
  BY <1>2 DEF Streams
<1> QED
  BY <1>2, <1>3, <1>4, <1>5, <1>6 DEF Streams

\* One connection changes, in what it has or in being registered.
LEMMA OneStream ==
    ASSUME Streams, broadcasts' = broadcasts, NEW s \in Subscriber, NEW v,
           subscriber' = [subscriber EXCEPT ![s] = v],
           Stream(v, broadcasts), ~v.open => v = Closed,
           _subscribers' \ {s} = _subscribers \ {s},
           s \in _subscribers' => v.open /\ UpToDate(v, broadcasts)
    PROVE  Streams'
<1>1. v \in [open : BOOLEAN, start : Nat, queue : Seq(Nat), sent : Seq(Nat)]
  BY DEF Stream
<1>2. /\ subscriber' \in [Subscriber ->
             [open : BOOLEAN, start : Nat, queue : Seq(Nat), sent : Seq(Nat)]]
      /\ subscriber'[s] = v
      /\ \A t \in Subscriber : t # s => subscriber'[t] = subscriber[t]
  BY <1>1 DEF Streams
<1>3. \A t \in Subscriber : t # s => (t \in _subscribers' <=> t \in _subscribers)
  OBVIOUS
<1>4. _subscribers' \subseteq Subscriber
  BY DEF Streams
<1>5. \A t \in Subscriber : /\ Stream(subscriber'[t], broadcasts)
                            /\ ~subscriber'[t].open => subscriber'[t] = Closed
                            /\ t \in _subscribers' => subscriber'[t].open
                            /\ t \in _subscribers' => UpToDate(subscriber'[t], broadcasts)
  BY <1>2, <1>3 DEF Streams
<1> QED
  BY <1>2, <1>4, <1>5 DEF Streams

\* Every step keeps the streams without gaps.
LEMMA StreamsNext ==
    ASSUME Control, IInv, Orders, Streams, [Next]_vars
    PROVE  Streams'
<1>1. broadcasts \in Seq(Nat)
  <2>1. Id \subseteq Nat /\ broadcasts \in Seq(Id)
    BY DEF Orders, Ordered, Id
  <2> QED
    BY <2>1, SeqMonotonic
<1>2. CASE UNCHANGED <<broadcasts, subscriber, _subscribers>>
  BY <1>2 DEF Streams
<1>3. ASSUME NEW x, Settled(x)', BroadcastEvent(x)
      PROVE  Streams'
  <2>1. x \in Nat
    BY <1>3 DEF Settled, Id
  <2> QED
    BY <1>1, <1>3, <2>1, StreamsBroadcast
<1>4. CASE broadcasts' = broadcasts /\ Restart
  <2>1. subscriber' = [s \in Subscriber |-> Closed] /\ _subscribers' = {}
        /\ broadcasts' = broadcasts
    BY <1>4 DEF Restart
  <2>2. Stream(Closed, broadcasts) /\ ~Closed.open
    BY <1>1, ClosedStream
  <2>3. Closed \in [open : BOOLEAN, start : Nat, queue : Seq(Nat), sent : Seq(Nat)]
    BY <2>2 DEF Stream
  <2> QED
    BY <2>1, <2>2, <2>3 DEF Streams
<1>5. CASE broadcasts' = broadcasts /\ Tools
  <2>1. CASE \E a \in Alert : CreateAlert(a) \/ EnableAlert(a) \/ DisableAlert(a)
    BY <1>2, <2>1 DEF CreateAlert, EnableAlert, DisableAlert, streamVars
  <2>2. ASSUME NEW s \in Subscriber, Subscribe(s)
        PROVE  Streams'
    <3>1. subscriber[s] = Closed
      BY <2>2 DEF Subscribe, Streams
    <3>2. PICK v : /\ v = [Closed EXCEPT !.open = TRUE, !.start = Len(broadcasts)]
                   /\ Stream(v, broadcasts) /\ UpToDate(v, broadcasts) /\ v.open
      BY <1>1, OpenedStream
    <3>3. subscriber' = [subscriber EXCEPT ![s].open = TRUE, ![s].start = Len(broadcasts)]
          /\ _subscribers' = _subscribers \cup {s} /\ broadcasts' = broadcasts
      BY <2>2 DEF Subscribe
    <3>4. subscriber' = [subscriber EXCEPT ![s] = v]
      BY <3>1, <3>2, <3>3 DEF Streams
    <3> QED
      BY <3>2, <3>3, <3>4, OneStream
  <2>3. ASSUME NEW s \in Subscriber, SendLine(s)
        PROVE  Streams'
    <3> DEFINE u == subscriber[s]
    <3>1. /\ u.queue # <<>> /\ u.open /\ _subscribers' = _subscribers
          /\ subscriber' = [subscriber EXCEPT ![s].queue = Tail(@),
                                              ![s].sent = Append(@, Head(u.queue))]
          /\ broadcasts' = broadcasts
      BY <2>3 DEF SendLine
    <3>2. Stream(u, broadcasts)
      BY DEF Streams
    <3>3. PICK v : /\ v = [u EXCEPT !.queue = Tail(@), !.sent = Append(@, Head(u.queue))]
                   /\ Stream(v, broadcasts) /\ v.open = u.open
                   /\ UpToDate(u, broadcasts) => UpToDate(v, broadcasts)
      <4> HIDE DEF u
      <4> QED
        BY <1>1, <3>1, <3>2, StreamSends, PublicationAssumption
    <3>4. subscriber' = [subscriber EXCEPT ![s] = v]
      BY <3>1, <3>3 DEF Streams
    <3> QED
      BY <3>1, <3>3, <3>4, OneStream DEF Streams
  <2>4. ASSUME NEW s \in Subscriber, Disconnect(s)
        PROVE  Streams'
    <3>1. /\ subscriber' = [subscriber EXCEPT ![s] = Closed]
          /\ _subscribers' = _subscribers \ {s} /\ broadcasts' = broadcasts
      BY <2>4 DEF Disconnect
    <3> QED
      BY <1>1, <3>1, ClosedStream, OneStream
  <2> QED
    BY <1>5, <2>1, <2>2, <2>3, <2>4 DEF Tools
<1> QED
  BY <1>2, <1>3, <1>4, <1>5, OrdersMove

\* Control, store, orders and connections together.
THEOREM DeliveryInvariance == Spec => [](Orders /\ Streams)
<1>1. Init => Orders /\ Streams
  <2> SUFFICES ASSUME Init PROVE Orders /\ Streams
    OBVIOUS
  <2>1. Len(events) \in Nat /\ Capacity \in Nat
    BY PublicationAssumption DEF Init
  <2>2. Ordered(events, <<>>) /\ Len(<<>>) <= Capacity
    BY <2>1, EmptySeq DEF Ordered
  <2>3. Orders
    BY <2>2 DEF Init, Orders
  <2>4. broadcasts \in Seq(Nat)
    BY DEF Init
  <2>5. Stream(Closed, broadcasts) /\ ~Closed.open
    BY <2>4, ClosedStream
  <2>6. Closed \in [open : BOOLEAN, start : Nat, queue : Seq(Nat), sent : Seq(Nat)]
    BY <2>5 DEF Stream
  <2> QED
    BY <2>3, <2>5, <2>6 DEF Init, Streams
<1>2. Control /\ IInv /\ Orders /\ Streams /\ [Next]_vars => (Orders /\ Streams)'
  BY OrdersNext, StreamsNext
<1> QED
  BY <1>1, <1>2, PublicationInvariance, PTL DEF Spec

\* In the history, the journal and the streams no trigger comes before its cause:
\* an event causes others only once its own broadcast is past.
THEOREM CausesPrecedeTriggers == Spec => []CausesComeFirst
<1>1. ASSUME Orders, NEW order, Ordered(events, order)
      PROVE  \A j \in DOMAIN order : \A i \in 1..(j - 1) : events[order[i]].cause # order[j]
  <2>1. DOMAIN order = 1..Len(order) /\ Len(order) \in Nat
    BY <1>1, LenProperties DEF Ordered
  <2>2. \A j \in 1..Len(order) : \A i \in 1..(j - 1) : i \in 1..Len(order) /\ i < j
    BY <2>1
  <2> QED
    BY <1>1, <2>1, <2>2 DEF Ordered
<1>2. Orders => CausesComeFirst
  BY <1>1 DEF Orders, CausesComeFirst
<1> QED
  BY <1>2, DeliveryInvariance, PTL

\* Whatever is dropped is the end of a stream: a queue that is full ends the
\* registration, it never loses an event in the middle.
THEOREM NoStreamHasGaps == Spec => []StreamsAreGapless
<1>1. ASSUME Orders, Streams, NEW s \in Subscriber
      PROVE  /\ IsPrefix(Line(subscriber[s]), Since(subscriber[s], broadcasts))
             /\ s \in _subscribers => Line(subscriber[s]) = Since(subscriber[s], broadcasts)
  <2>1. Id \subseteq Nat /\ broadcasts \in Seq(Id)
    BY <1>1 DEF Orders, Ordered, Id
  <2>2. broadcasts \in Seq(Nat)
    BY <2>1, SeqMonotonic
  <2>3. Stream(subscriber[s], broadcasts)
        /\ (s \in _subscribers => UpToDate(subscriber[s], broadcasts))
    BY <1>1 DEF Streams
  <2> QED
    BY <2>2, <2>3, StreamIsPrefix
<1>2. Orders /\ Streams => StreamsAreGapless
  BY <1>1 DEF StreamsAreGapless, Line, Since
<1> QED
  BY <1>2, DeliveryInvariance, PTL

-----------------------------------------------------------------------------
(* Refinement: the listeners of the promise, read off the connections. *)

Listening == {s \in Subscriber : subscriber[s].open}
From == [s \in Subscriber |-> subscriber[s].start]
Heard == [s \in Subscriber |-> subscriber[s].sent]

\* A broadcast is said, whatever queues it finds full, and nobody has heard it yet.
LEMMA BroadcastImplements ==
    ASSUME Streams, broadcasts \in Seq(Nat), NEW x \in Nat, BroadcastEvent(x)
    PROVE  Live!Say
<1>1. /\ broadcasts' = Append(broadcasts, x)
      /\ subscriber' = [s \in Subscriber |->
             IF s \in _subscribers /\ ~Full(s)
             THEN [subscriber[s] EXCEPT !.queue = Append(@, x)]
             ELSE subscriber[s]]
  BY DEF BroadcastEvent
<1>2. \A s \in Subscriber : /\ subscriber'[s].open = subscriber[s].open
                            /\ subscriber'[s].start = subscriber[s].start
                            /\ subscriber'[s].sent = subscriber[s].sent
  BY <1>1 DEF Streams
<1>3. Listening' = Listening /\ From' = From /\ Heard' = Heard
  BY <1>2 DEF Listening, From, Heard
<1>4. broadcasts' # <<>> /\ broadcasts'[Len(broadcasts')] = x
  BY <1>1, AppendProperties
<1> QED
  BY <1>1, <1>3, <1>4 DEF Live!Say, Listening, From, Heard

\* Who connects listens from here on.
LEMMA SubscribeImplements ==
    ASSUME Streams, NEW s \in Subscriber, Subscribe(s)
    PROVE  Live!Listen(s)
<1> DEFINE u == subscriber[s]
           v == [u EXCEPT !.open = TRUE, !.start = Len(broadcasts)]
<1>1. /\ subscriber' = [subscriber EXCEPT ![s] = v]
      /\ ~u.open /\ broadcasts' = broadcasts
  BY DEF Subscribe, Streams
<1>2. u \in [open : BOOLEAN, start : Nat, queue : Seq(Nat), sent : Seq(Nat)]
  BY DEF Streams
<1> HIDE DEF u
<1>3. v.open /\ v.start = Len(broadcasts) /\ v.sent = u.sent
  BY <1>2
<1> HIDE DEF v
<1>4. /\ subscriber'[s] = v
      /\ \A t \in Subscriber : t # s => subscriber'[t] = subscriber[t]
  BY <1>1 DEF Streams
<1>5. s \notin Listening /\ Listening' = Listening \cup {s}
  BY <1>1, <1>3, <1>4 DEF Listening, u
<1>6. From' = [From EXCEPT ![s] = Len(broadcasts)]
  BY <1>3, <1>4 DEF From
<1>7. Heard' = Heard
  BY <1>3, <1>4 DEF Heard, u
<1> QED
  BY <1>1, <1>5, <1>6, <1>7 DEF Live!Listen, Listening, From, Heard

\* What a connection is sent is the line after those it was sent: its queue begins there.
LEMMA SendImplements ==
    ASSUME Streams, broadcasts \in Seq(Nat), NEW s \in Subscriber, SendLine(s)
    PROVE  Live!Hear(s)
<1> DEFINE u == subscriber[s]
           next == From[s] + Len(Heard[s]) + 1
           sent == Append(u.sent, Head(u.queue))
           v == [u EXCEPT !.queue = Tail(@), !.sent = sent]
<1>1. u.open /\ u.queue # <<>> /\ broadcasts' = broadcasts
  BY DEF SendLine
<1>2. /\ u \in [open : BOOLEAN, start : Nat, queue : Seq(Nat), sent : Seq(Nat)]
      /\ u.start + Len(u.sent) + Len(u.queue) <= Len(broadcasts)
      /\ \A i \in 1..Len(u.queue) : u.queue[i] = broadcasts[u.start + Len(u.sent) + i]
  BY DEF Streams, Stream
<1>3. subscriber' = [subscriber EXCEPT ![s] = v]
  BY DEF SendLine, Streams
<1>4. next = u.start + Len(u.sent) + 1
  BY DEF From, Heard
<1> HIDE DEF u, next
<1>5. 1 \in 1..Len(u.queue) /\ Head(u.queue) = u.queue[1]
  BY <1>1, <1>2, HeadTailProperties, EmptySeq, LenProperties
<1>6. Len(u.queue) \in Nat /\ Len(u.sent) \in Nat /\ u.start \in Nat /\ Len(broadcasts) \in Nat
  BY <1>2, LenProperties
<1>7. next <= Len(broadcasts)
  BY <1>2, <1>4, <1>5, <1>6
<1>8. Head(u.queue) = broadcasts[next]
  BY <1>2, <1>4, <1>5
<1>9. v.open = u.open /\ v.start = u.start /\ v.sent = sent
  BY <1>2
<1> HIDE DEF v
<1>10. /\ subscriber'[s] = v
       /\ \A t \in Subscriber : t # s => subscriber'[t] = subscriber[t]
  BY <1>3 DEF Streams
<1>11. Listening' = Listening /\ s \in Listening
  BY <1>1, <1>9, <1>10 DEF Listening, u
<1>12. From' = From
  BY <1>9, <1>10 DEF From, u
<1>13. Heard' = [Heard EXCEPT ![s] = Append(Heard[s], broadcasts[next])]
  BY <1>8, <1>9, <1>10 DEF Heard, u
<1> QED
  BY <1>1, <1>7, <1>11, <1>12, <1>13 DEF Live!Hear, Listening, From, Heard, next

\* Connections that close, alone or with the process, leave.
LEMMA CloseImplements ==
    ASSUME Streams, NEW gone \in SUBSET Subscriber, broadcasts' = broadcasts,
           subscriber' = [s \in Subscriber |-> IF s \in gone THEN Closed ELSE subscriber[s]]
    PROVE  Live!Leave(gone)
<1>1. ~Closed.open /\ Closed.start = 0 /\ Closed.sent = <<>>
  BY DEF Closed
<1>2. Listening' = Listening \ gone
  BY <1>1 DEF Listening
<1>3. From' = [s \in Subscriber |-> IF s \in gone THEN 0 ELSE From[s]]
  BY <1>1 DEF From
<1>4. Heard' = [s \in Subscriber |-> IF s \in gone THEN <<>> ELSE Heard[s]]
  BY <1>1 DEF Heard
<1> QED
  BY <1>2, <1>3, <1>4 DEF Live!Leave, Listening, From, Heard

\* Every step of publication is a step of the promise or changes no stream.
LEMMA StepKeepsPromise ==
    ASSUME Control, IInv, Orders, Streams, [Next]_vars
    PROVE  [Live!Next]_(Live!vars)
<1>1. broadcasts \in Seq(Nat)
  <2>1. Id \subseteq Nat /\ broadcasts \in Seq(Id)
    BY DEF Orders, Ordered, Id
  <2> QED
    BY <2>1, SeqMonotonic
<1>2. CASE UNCHANGED <<broadcasts, subscriber, _subscribers>>
  BY <1>2 DEF Live!vars
<1>3. ASSUME NEW x, Settled(x)', BroadcastEvent(x)
      PROVE  Live!Next
  <2>1. x \in Nat
    BY <1>3 DEF Settled, Id
  <2> QED
    BY <1>1, <1>3, <2>1, BroadcastImplements DEF Live!Next
<1>4. CASE broadcasts' = broadcasts /\ Restart
  <2>1. subscriber' = [s \in Subscriber |-> IF s \in Subscriber THEN Closed ELSE subscriber[s]]
    BY <1>4 DEF Restart
  <2>2. Live!Leave(Subscriber)
    BY <1>4, <2>1, CloseImplements
  <2> QED
    BY <2>2 DEF Live!Next
<1>5. CASE broadcasts' = broadcasts /\ Tools
  <2>1. CASE \E a \in Alert : CreateAlert(a) \/ EnableAlert(a) \/ DisableAlert(a)
    BY <1>2, <2>1 DEF CreateAlert, EnableAlert, DisableAlert, streamVars
  <2>2. ASSUME NEW s \in Subscriber, Subscribe(s) \/ SendLine(s)
        PROVE  Live!Next
    BY <1>1, <2>2, SubscribeImplements, SendImplements DEF Live!Next
  <2>3. ASSUME NEW s \in Subscriber, Disconnect(s)
        PROVE  Live!Next
    <3>1. subscriber' = [t \in Subscriber |-> IF t \in {s} THEN Closed ELSE subscriber[t]]
          /\ broadcasts' = broadcasts
      BY <2>3 DEF Disconnect, Streams
    <3>2. Live!Leave({s})
      BY <3>1, CloseImplements
    <3> QED
      BY <3>2 DEF Live!Next
  <2> QED
    BY <1>5, <2>1, <2>2, <2>3 DEF Tools
<1> QED
  BY <1>2, <1>3, <1>4, <1>5, OrdersMove

\* Publication implements the stream promise: whoever listens hears what is broadcast
\* from then on, each line after the one before it, until it leaves, the process ends,
\* or a full queue has ended what it gets (src/core/sse_broker.py:48).
THEOREM StreamRefinement == Spec => StreamsKeepPromise
<1>1. Init => Live!Init
  <2> SUFFICES ASSUME Init PROVE Live!Init
    OBVIOUS
  <2>1. /\ subscriber = [s \in Subscriber |-> Closed] /\ broadcasts = <<>>
        /\ ~Closed.open /\ Closed.start = 0 /\ Closed.sent = <<>>
    BY DEF Init, Closed
  <2> QED
    BY <2>1 DEF Live!Init
<1>2. Control /\ IInv /\ Orders /\ Streams /\ [Next]_vars => [Live!Next]_(Live!vars)
  BY StepKeepsPromise
<1> QED
  BY <1>1, <1>2, PublicationInvariance, DeliveryInvariance, PTL
  DEF Spec, StreamsKeepPromise, Live!Spec

-----------------------------------------------------------------------------
(* The debts of the store and the wake-ups. *)

\* The event whose publication has not reached its wake-ups.
EarlyOf(n) == \E p \in Task : EarlyAt(p) /\ task[p][1].id = n

\* A publication leaves those steps by its wake-ups, or a fault strikes it.
LEMMA EarlyMoves ==
    ASSUME Control, [Next]_vars, NEW n, EarlyOf(n)
    PROVE  EarlyOf(n)' \/ n \in struck' \/ \E p \in Task : Wake(p) /\ n = Current(p)
<1>1. PICK q \in Task : EarlyAt(q) /\ task[q][1].id = n
  BY DEF EarlyOf
<1>2. /\ Len(task[q]) > 0 /\ task[q] # <<>> /\ Head(task[q]) = task[q][1] /\ Current(q) = n
      /\ task[q][1].pc \in Early /\ task \in [Task -> Seq(Frame)] /\ task[q] \in Seq(Frame)
  BY <1>1, StackShape DEF EarlyAt, Current, Control
<1>3. ASSUME task'[q] = task[q]
      PROVE  EarlyOf(n)'
  BY <1>1, <1>3 DEF EarlyOf, EarlyAt
<1>4. ASSUME NEW p \in Task, NEW s, task' = [task EXCEPT ![p] = s], p # q
      PROVE  EarlyOf(n)'
  BY <1>2, <1>3, <1>4
<1>5. ASSUME NEW pc, At(q, pc), pc \notin Early
      PROVE  FALSE
  BY <1>2, <1>5 DEF At
<1>6. ASSUME NEW pc \in Early, Go(q, pc)
      PROVE  EarlyOf(n)'
  <2> DEFINE f == [task[q][1] EXCEPT !.pc = pc]
  <2>1. task[q][1] \in Frame
    BY <1>2, StackShape
  <2>2. f \in Frame /\ f.pc = pc /\ f.id = n
    BY <1>1, <2>1 DEF Frame, Early
  <2>3. task' = [task EXCEPT ![q][1] = f]
    BY <1>6 DEF Go
  <2> HIDE DEF f
  <2>4. /\ [task[q] EXCEPT ![1] = f][1] = f /\ Len([task[q] EXCEPT ![1] = f]) > 0
    BY <1>2, <2>2
  <2>5. task'[q] = [task[q] EXCEPT ![1] = f]
    BY <1>2, <2>3
  <2>6. EarlyAt(q)' /\ task'[q][1].id = n
    BY <2>2, <2>4, <2>5 DEF EarlyAt
  <2> QED
    BY <2>6 DEF EarlyOf
<1>7. ASSUME NEW p \in Task, NEW e \in FeedEvents, PublishEvent(p, e)
      PROVE  EarlyOf(n)'
  BY <1>2, <1>4, <1>7 DEF PublishEvent
<1>8. ASSUME NEW p \in Task, SaveAndTakeIn(p)
      PROVE  EarlyOf(n)'
  <2>1. CASE p = q
    BY <1>6, <1>8, <2>1 DEF SaveAndTakeIn, Early
  <2>2. CASE p # q
    BY <1>2, <1>3, <1>8, <2>2 DEF SaveAndTakeIn, Go
  <2> QED
    BY <2>1, <2>2
<1>9. ASSUME NEW p \in Task, AppendRecentEvent(p)
      PROVE  EarlyOf(n)'
  <2>1. CASE p = q
    BY <1>6, <1>9, <2>1 DEF AppendRecentEvent, Early
  <2>2. CASE p # q
    BY <1>2, <1>3, <1>9, <2>2 DEF AppendRecentEvent, Go
  <2> QED
    BY <2>1, <2>2
<1>10. ASSUME NEW p \in Task, SaveFails(p) \/ Cancel(p)
       PROVE  EarlyOf(n)' \/ n \in struck'
  <2>1. CASE p = q
    BY <1>2, <1>10, <2>1 DEF SaveFails, Cancel
  <2>2. CASE p # q
    BY <1>2, <1>4, <1>10, <2>2 DEF SaveFails, Cancel
  <2> QED
    BY <2>1, <2>2
<1>11. ASSUME NEW p \in Task, Wake(p)
       PROVE  EarlyOf(n)' \/ n = Current(p)
  <2>1. CASE p = q
    BY <1>2, <2>1
  <2>2. CASE p # q
    BY <1>2, <1>3, <1>11, <2>2 DEF Wake, Proceed
  <2> QED
    BY <2>1, <2>2
<1>12. ASSUME NEW p \in Task,
              \/ ListAlerts(p) \/ AcquireLock(p) \/ GetAlert(p)
              \/ RecordAlertTrigger(p) \/ EvaluationFails(p)
       PROVE  EarlyOf(n)'
  <2>1. p # q
    <3>1. /\ "candidates" \notin Early /\ "lock" \notin Early /\ "fresh" \notin Early
          /\ "record" \notin Early
      BY DEF Early
    <3> QED
      BY <1>5, <1>12, <3>1 DEF ListAlerts, AcquireLock, GetAlert, RecordAlertTrigger,
                               EvaluationFails
  <2>2. task'[q] = task[q]
    BY <1>2, <1>12, <2>1 DEF ListAlerts, AcquireLock, GetAlert, RecordAlertTrigger,
                             EvaluationFails, Evaluate, Go
  <2> QED
    BY <1>3, <2>2
<1>13. CASE Tools \/ Registration \/ UNCHANGED vars
  <2>1. task' = task
    BY <1>13 DEF Tools, CreateAlert, EnableAlert, DisableAlert, Subscribe, SendLine, Disconnect,
                 Registration, vars
  <2> QED
    BY <1>3, <2>1
<1>14. CASE Restart
  <2>1. \E p \in {r \in Task : task[r] # <<>>} : n = Current(p)
    BY <1>2
  <2> QED
    BY <1>14, <2>1 DEF Restart
<1> QED
  BY <1>7, <1>8, <1>9, <1>10, <1>11, <1>12, <1>13, <1>14 DEF Next, Step

\* An event gets its sequence when it is saved, and no other way.
LEMMA SequencesMove ==
    ASSUME Control, IInv, [Next]_vars, NEW n \in Id'
    PROVE  \/ n \in Id /\ events'[n].sequence = events[n].sequence
           \/ events'[n].sequence = 0
           \/ /\ n \in Id /\ events[n].persistent
              /\ Save(events[n].routing) /\ events'[n].sequence = nextSequence
              /\ EarlyOf(n)' \/ n \in struck'
<1>1. EventsOK /\ nextSequence \in Nat
  BY EventStoreAssumption DEF Control, IInv, StoreTypeOK
<1>2. CASE events' = events
  BY <1>2 DEF Id
<1>3. ASSUME NEW p \in Task, At(p, "save"), SaveEvent(Current(p)), SaveAndTakeIn(p) \/ Cancel(p)
      PROVE  \/ n \in Id /\ events'[n].sequence = events[n].sequence
             \/ /\ n \in Id /\ events[n].persistent
                /\ Save(events[n].routing) /\ events'[n].sequence = nextSequence
                /\ EarlyOf(n)' \/ n \in struck'
  <2>1. /\ Current(p) \in Id /\ Current(p) = task[p][1].id /\ task[p][1].pc = "save"
        /\ Len(task[p]) > 0 /\ 1 \in 1..Len(task[p])
    BY <1>3, StandsAt
  <2>2. /\ Id' = Id /\ events'[Current(p)].sequence = nextSequence
        /\ \A m \in Id : m # Current(p) => events'[m] = events[m]
    BY <1>1, <1>3, <2>1, EventsSaved DEF SaveEvent
  <2>3. CASE n # Current(p)
    BY <2>2, <2>3
  <2>4. CASE n = Current(p)
    <3>1. events[n].persistent
      BY <2>1, <2>4 DEF Control, StackOK
    <3>2. Save(events[n].routing)
      BY <1>3, <2>4 DEF SaveEvent
    <3>3. CASE Cancel(p)
      BY <2>1, <2>2, <2>4, <3>1, <3>2, <3>3 DEF Cancel
    <3>4. CASE SaveAndTakeIn(p)
      <4>1. EarlyOf(n)
        BY <2>1, <2>4 DEF EarlyOf, EarlyAt, Early
      <4>2. task' = [task EXCEPT ![p][1].pc = "journal"]
        BY <3>4 DEF SaveAndTakeIn, Go
      <4>3. task \in [Task -> Seq(Frame)] /\ task[p][1] \in Frame
        BY <2>1 DEF Control
      <4> DEFINE f == [task[p][1] EXCEPT !.pc = "journal"]
      <4>4. f \in Frame /\ f.pc = "journal" /\ f.id = n
        BY <2>1, <2>4, <4>3 DEF Frame
      <4>5. task' = [task EXCEPT ![p][1] = f]
        BY <4>2
      <4> HIDE DEF f
      <4>6. /\ [task[p] EXCEPT ![1] = f][1] = f /\ Len([task[p] EXCEPT ![1] = f]) > 0
        BY <2>1, <4>3, <4>4
      <4>7. task'[p] = [task[p] EXCEPT ![1] = f]
        BY <4>3, <4>5
      <4>8. EarlyAt(p)' /\ task'[p][1].id = n
        BY <4>4, <4>6, <4>7 DEF EarlyAt, Early
      <4>9. EarlyOf(n)'
        BY <4>8 DEF EarlyOf
      <4> QED
        BY <2>1, <2>2, <2>4, <3>1, <3>2, <4>9
    <3> QED
      BY <1>3, <3>3, <3>4
  <2> QED
    BY <2>3, <2>4
<1>4. ASSUME NEW e, e.sequence = 0, events' = Append(events, e)
      PROVE  \/ n \in Id /\ events'[n].sequence = events[n].sequence
             \/ events'[n].sequence = 0
  <2>1. events \in Seq(Event) /\ Len(events) \in Nat
    BY <1>1 DEF EventsOK
  <2>2. /\ Len(events') = Len(events) + 1 /\ events'[Len(events) + 1] = e
        /\ \A m \in 1..Len(events) : events'[m] = events[m]
    BY <1>4, <2>1
  <2>3. n \in 1..Len(events) \/ n = Len(events) + 1
    BY <2>1, <2>2 DEF Id
  <2> QED
    BY <1>4, <2>2, <2>3 DEF Id
<1>5. ASSUME NEW p \in Task, NEW e \in FeedEvents, PublishEvent(p, e)
      PROVE  \E v : v.sequence = 0 /\ events' = Append(events, v)
  BY <1>5 DEF PublishEvent
<1>6. ASSUME NEW p \in Task, GetAlert(p)
      PROVE  events' = events \/ \E v : v.sequence = 0 /\ events' = Append(events, v)
  BY <1>6 DEF GetAlert
<1>7. ASSUME NEW p \in Task, Step(p)
      PROVE  \/ events' = events \/ SaveAndTakeIn(p)
             \/ \E v : v.sequence = 0 /\ events' = Append(events, v)
  BY <1>6, <1>7 DEF Step, SaveFails, AppendRecentEvent, Wake, ListAlerts, AcquireLock,
                    RecordAlertTrigger, EvaluationFails
<1>8. CASE Tools \/ Registration \/ Restart \/ UNCHANGED vars
  BY <1>2, <1>8 DEF Tools, CreateAlert, EnableAlert, DisableAlert, Subscribe, SendLine,
                    Disconnect, Registration, Restart, vars
<1>9. ASSUME NEW p \in Task, Cancel(p)
      PROVE  events' = events \/ (At(p, "save") /\ SaveEvent(Current(p)))
  BY <1>9 DEF Cancel
<1>10. ASSUME NEW p \in Task, SaveAndTakeIn(p)
       PROVE  At(p, "save") /\ SaveEvent(Current(p))
  BY <1>10 DEF SaveAndTakeIn
<1> QED
  BY <1>2, <1>3, <1>4, <1>5, <1>7, <1>8, <1>9, <1>10 DEF Next

\* Every row of a consumer for an event that was saved is relevant to the consumer, and
\* the consumer was woken for it, or is to be, or a fault came between.
Debts ==
    /\ \A n \in Id : events[n].sequence < nextSequence
    /\ \A row \in consumer_event_state, n \in Id :
          events[n].sequence = row[2] =>
             /\ events[n].persistent
             /\ row[1] \in consumers /\ IsEventRelevant(events[n].routing, row[1])
             /\ EarlyOf(n) \/ n \in struck \/ <<row[1], n>> \in woken

\* The store's rows and registrations, and the wake-ups, only grow.
LEMMA StoreMoves ==
    ASSUME Control, IInv, [Next]_vars
    PROVE  /\ nextSequence' \in {nextSequence, nextSequence + 1}
           /\ consumers \subseteq consumers'
           /\ \A c \in Consumer : consumer_topics[c] \subseteq consumer_topics'[c]
           /\ \/ consumer_event_state' = consumer_event_state
              \/ nextSequence' = nextSequence + 1
           /\ struck \subseteq struck' /\ woken \subseteq woken'
<1> USE DEF storeVars, registryVars, deliveryVars
<1>1. ASSUME NEW r, Save(r)
      PROVE  /\ nextSequence' \in {nextSequence, nextSequence + 1}
             /\ consumers \subseteq consumers'
             /\ \A c \in Consumer : consumer_topics[c] \subseteq consumer_topics'[c]
             /\ \/ consumer_event_state' = consumer_event_state
                \/ nextSequence' = nextSequence + 1
  BY <1>1 DEF Save
<1>2. ASSUME NEW p \in Task, NEW e \in FeedEvents, PublishEvent(p, e)
      PROVE  UNCHANGED <<storeVars, struck, woken>>
  BY <1>2 DEF PublishEvent
<1>3. ASSUME NEW p \in Task, Step(p)
      PROVE  /\ UNCHANGED storeVars \/ \E r : Save(r)
             /\ struck \subseteq struck' /\ woken \subseteq woken'
  BY <1>3 DEF Step, SaveAndTakeIn, SaveEvent, SaveFails, AppendRecentEvent, Wake, ListAlerts,
              AcquireLock, GetAlert, RecordAlertTrigger, EvaluationFails
<1>4. ASSUME NEW p \in Task, Cancel(p)
      PROVE  /\ UNCHANGED storeVars \/ \E r : Save(r)
             /\ struck \subseteq struck' /\ woken \subseteq woken'
  BY <1>4 DEF Cancel, SaveEvent
<1>5. CASE Tools \/ Restart \/ UNCHANGED vars
  BY <1>5 DEF Tools, CreateAlert, EnableAlert, DisableAlert, Subscribe, SendLine, Disconnect,
              Restart, vars
<1>6. CASE Registration
  <2>1. struck' = struck /\ woken' = woken
    BY <1>6 DEF Registration
  <2>2. ASSUME NEW c \in Consumer, RegisterConsumer(c)
        PROVE  /\ consumers \subseteq consumers' /\ nextSequence' = nextSequence
               /\ UNCHANGED <<consumer_topics, consumer_event_state>>
    BY <2>2 DEF RegisterConsumer
  <2>3. ASSUME NEW c \in Consumer, NEW t \in Topic, AddTopic(c, t)
        PROVE  /\ UNCHANGED <<nextSequence, consumers, consumer_event_state>>
               /\ \A d \in Consumer : consumer_topics[d] \subseteq consumer_topics'[d]
    BY <2>3 DEF AddTopic, IInv, StoreTypeOK
  <2> QED
    BY <1>6, <2>1, <2>2, <2>3 DEF Registration
<1> QED
  BY <1>1, <1>2, <1>3, <1>4, <1>5, <1>6 DEF Next

\* Every step keeps what is known of the events consumers owe.
LEMMA DebtsNext ==
    ASSUME Control, IInv, Debts, [Next]_vars
    PROVE  Debts'
<1>1. EventsKeep /\ EventsOK /\ nextSequence \in Nat /\ nextSequence >= 1
  BY ControlNext, EventStoreAssumption DEF Control, IInv, StoreTypeOK
<1>2. \A n \in Id' : events'[n].sequence < nextSequence'
  <2> SUFFICES ASSUME NEW n \in Id' PROVE events'[n].sequence < nextSequence'
    OBVIOUS
  <2>1. nextSequence' \in {nextSequence, nextSequence + 1}
    BY StoreMoves
  <2>2. CASE n \in Id /\ events'[n].sequence = events[n].sequence
    <3>1. events[n] \in Event
      BY <1>1, <2>2 DEF EventsOK, Id
    <3>2. events[n].sequence \in Nat /\ events[n].sequence < nextSequence
      BY <2>2, <3>1 DEF Debts, Event
    <3> QED
      BY <1>1, <2>1, <2>2, <3>2
  <2>3. CASE events'[n].sequence = 0
    BY <1>1, <2>1, <2>3
  <2>4. CASE n \in Id /\ Save(events[n].routing) /\ events'[n].sequence = nextSequence
    BY <1>1, <2>4 DEF Save
  <2> QED
    BY <2>2, <2>3, <2>4, SequencesMove
<1>3. \A row \in consumer_event_state' : row[1] \in consumers' /\ row[2] \in persistent_events'
  <2>1. IInv'
    BY StoreStep, StepInvariant
  <2> QED
    BY <2>1 DEF IInv, StoreTypeOK
<1>4. ASSUME NEW row \in consumer_event_state
      PROVE  /\ row[1] \in Consumer /\ row[2] \in Nat /\ row[2] < nextSequence
  <2>1. row \in consumers \X persistent_events /\ consumers \subseteq Consumer
    BY DEF IInv, StoreTypeOK
  <2>2. row[1] \in consumers /\ row[2] \in persistent_events
    BY <2>1
  <2>3. persistent_events \subseteq 1..MaxEvents /\ MaxEvents \in Nat
    BY EventStoreAssumption DEF IInv, StoreTypeOK
  <2>4. \A t \in persistent_events : t \in Nat /\ t < nextSequence
    BY <2>3 DEF IInv
  <2> QED
    BY <2>1, <2>2, <2>4
<1>5. ASSUME NEW row \in consumer_event_state', NEW n \in Id', events'[n].sequence = row[2]
      PROVE  /\ events'[n].persistent
             /\ row[1] \in consumers' /\ IsEventRelevant(events[n].routing, row[1])'
             /\ EarlyOf(n)' \/ n \in struck' \/ <<row[1], n>> \in woken'
  <2>1. row[2] # 0
    <3>1. IInv'
      BY StoreStep, StepInvariant
    <3> QED
      BY <1>3, <3>1 DEF IInv, StoreTypeOK
  <2>2. row \in consumer_event_state \/ \E r : Save(r) /\ row[2] = nextSequence
    <3>1. ASSUME NEW r, Save(r) PROVE row \in consumer_event_state \/ row[2] = nextSequence
      BY <3>1 DEF Save
    <3>2. consumer_event_state' = consumer_event_state \/ \E r : Save(r)
      <4>1. ASSUME NEW p \in Task, Step(p) \/ Cancel(p)
            PROVE  consumer_event_state' = consumer_event_state \/ \E r : Save(r)
        BY <4>1 DEF Step, SaveAndTakeIn, SaveEvent, SaveFails, AppendRecentEvent, Wake,
                    ListAlerts, AcquireLock, GetAlert, RecordAlertTrigger, EvaluationFails,
                    Cancel, storeVars, deliveryVars
      <4>2. CASE Tools \/ Registration \/ Restart \/ UNCHANGED vars
        BY <4>2 DEF Tools, CreateAlert, EnableAlert, DisableAlert, Subscribe, SendLine,
                    Disconnect, Registration, RegisterConsumer, AddTopic, Restart, vars,
                    storeVars, deliveryVars
      <4>3. ASSUME NEW p \in Task, NEW e \in FeedEvents, PublishEvent(p, e)
            PROVE  consumer_event_state' = consumer_event_state
        BY <4>3 DEF PublishEvent, storeVars, deliveryVars
      <4> QED
        BY <4>1, <4>2, <4>3 DEF Next
    <3> QED
      BY <3>1, <3>2
  <2>3. CASE n \in Id /\ events'[n].sequence = events[n].sequence
    <3>1. events[n] \in Event
      BY <1>1, <2>3 DEF EventsOK, Id
    <3>2. events[n].sequence < nextSequence /\ events[n].sequence \in Nat
      BY <2>3, <3>1 DEF Debts, Event
    <3>3. row \in consumer_event_state
      BY <1>1, <1>5, <2>2, <2>3, <3>2
    <3>4. /\ events[n].persistent /\ row[1] \in consumers
          /\ IsEventRelevant(events[n].routing, row[1])
          /\ EarlyOf(n) \/ n \in struck \/ <<row[1], n>> \in woken
      BY <1>5, <2>3, <3>3 DEF Debts
    <3>5. row[1] \in Consumer /\ consumer_topics[row[1]] \subseteq consumer_topics'[row[1]]
      BY <1>4, <3>3, StoreMoves
    <3>6. events'[n].persistent /\ events'[n].routing = events[n].routing
      BY <1>1, <2>3, <3>4 DEF EventsKeep
    <3>7. IsEventRelevant(events[n].routing, row[1])'
      BY <3>4, <3>5, <3>6 DEF IsEventRelevant
    <3>8. ASSUME NEW p \in Task, Wake(p), n = Current(p)
          PROVE  n \in struck' \/ <<row[1], n>> \in woken'
      BY <3>4, <3>8 DEF Wake, RelevantConsumers
    <3>9. EarlyOf(n)' \/ n \in struck' \/ <<row[1], n>> \in woken'
      <4>1. struck \subseteq struck' /\ woken \subseteq woken'
        BY StoreMoves
      <4>2. CASE EarlyOf(n)
        BY <3>8, <4>2, EarlyMoves
      <4> QED
        BY <3>4, <4>1, <4>2
    <3>10. row[1] \in consumers'
      BY <3>4, StoreMoves
    <3> QED
      BY <3>6, <3>7, <3>9, <3>10
  <2>4. CASE events'[n].sequence = 0
    BY <1>5, <2>1, <2>4
  <2>5. CASE /\ n \in Id /\ events[n].persistent
             /\ Save(events[n].routing) /\ events'[n].sequence = nextSequence
             /\ EarlyOf(n)' \/ n \in struck'
    <3>1. row \notin consumer_event_state
      <4> SUFFICES ASSUME row \in consumer_event_state PROVE FALSE
        OBVIOUS
      <4>1. row[2] = nextSequence
        BY <1>5, <2>5
      <4>2. row[2] < nextSequence /\ row[2] \in Nat
        BY <1>4
      <4> QED
        BY <4>1, <4>2
    <3>2. row \in {c \in consumers : IsEventRelevant(events[n].routing, c)} \X {nextSequence}
      BY <2>5, <3>1 DEF Save
    <3>3. row[1] \in consumers /\ IsEventRelevant(events[n].routing, row[1])
      BY <3>2
    <3>4. consumer_topics' = consumer_topics /\ consumers' = consumers
      BY <2>5 DEF Save, registryVars
    <3>5. events'[n].persistent /\ events'[n].routing = events[n].routing
      BY <1>1, <2>5 DEF EventsKeep
    <3> QED
      BY <2>5, <3>3, <3>4, <3>5 DEF IsEventRelevant
  <2> QED
    BY <2>3, <2>4, <2>5, SequencesMove
<1> QED
  BY <1>2, <1>5 DEF Debts

-----------------------------------------------------------------------------
(* What is left of the types. *)

\* What counts against the bound on enablings.
Times == {e \in Alert \X (1..MaxEnabled) : e[2] <= enablings[e[1]]}

Bookkeeping ==
    /\ woken \subseteq Consumer \X Id /\ struck \subseteq Id
    /\ enabled \subseteq alerts /\ alerts \subseteq Alert
    /\ enablings \in [Alert -> 0..MaxEnabled] /\ IsFiniteSet(Times)
    /\ faults \in 0..MaxFaults

\* No alert is enabled more often than the bound on all of them.
LEMMA EnablingsBounded ==
    ASSUME enablings \in [Alert -> 0..MaxEnabled], IsFiniteSet(Times), MayEnable,
           NEW a \in Alert, enablings' = [enablings EXCEPT ![a] = @ + 1]
    PROVE  enablings' \in [Alert -> 0..MaxEnabled] /\ IsFiniteSet(Times')
<1>1. MaxEnabled \in Nat
  BY PublicationAssumption
<1>2. Cardinality(Times) < MaxEnabled /\ Cardinality(Times) \in Nat
  BY FS_CardinalityType DEF MayEnable, Times
<1>3. enablings[a] < MaxEnabled
  <2> SUFFICES ASSUME enablings[a] = MaxEnabled PROVE FALSE
    BY <1>1
  <2> DEFINE s == {a} \X (1..MaxEnabled)
  <2>1. s \subseteq Times
    BY DEF Times
  <2>2. IsFiniteSet({a}) /\ Cardinality({a}) = 1
    BY FS_Singleton
  <2>3. IsFiniteSet(1..MaxEnabled) /\ Cardinality(1..MaxEnabled) = MaxEnabled
    BY <1>1, FS_Interval
  <2>4. Cardinality(s) = 1 * MaxEnabled
    BY <2>2, <2>3, FS_Product
  <2>5. Cardinality(s) <= Cardinality(Times)
    BY <2>1, FS_Subset
  <2> HIDE DEF s
  <2> QED
    BY <1>1, <1>2, <2>4, <2>5
<1>4. enablings' \in [Alert -> 0..MaxEnabled]
  BY <1>1, <1>3
<1>5. Times' \subseteq Times \cup {<<a, enablings[a] + 1>>}
  <2> SUFFICES ASSUME NEW e \in Times', e \notin Times
               PROVE  e = <<a, enablings[a] + 1>>
    OBVIOUS
  <2>1. e \in Alert \X (1..MaxEnabled) /\ e[2] <= enablings'[e[1]]
    BY DEF Times
  <2>2. e = <<e[1], e[2]>> /\ e[1] \in Alert /\ e[2] \in 1..MaxEnabled
    BY <2>1
  <2>3. ~(e[2] <= enablings[e[1]])
    BY <2>1 DEF Times
  <2>4. e[1] = a
    BY <2>1, <2>2, <2>3
  <2>5. e[2] <= enablings[a] + 1 /\ ~(e[2] <= enablings[a]) /\ enablings[a] \in Nat
        /\ e[2] \in Nat
    BY <1>1, <2>1, <2>2, <2>3, <2>4
  <2>6. e[2] = enablings[a] + 1
    BY <2>5
  <2> QED
    BY <2>2, <2>4, <2>6
<1>6. IsFiniteSet(Times \cup {<<a, enablings[a] + 1>>})
  BY FS_AddElement
<1> QED
  BY <1>4, <1>5, <1>6, FS_Subset

\* Every step keeps the counts of failures and of enablings true.
LEMMA BookkeepingNext ==
    ASSUME Control, IInv, Bookkeeping, [Next]_vars
    PROVE  Bookkeeping'
<1>1. Id \subseteq Id'
  BY ControlNext DEF EventsKeep, Id, Control, EventsOK
<1>2. \A p \in Task : task[p] # <<>> => Current(p) \in Id
  BY StackShape DEF Current
<1>3. struck' \subseteq Id'
  <2>1. ASSUME NEW p \in Task, NEW pc, At(p, pc)
        PROVE  Current(p) \in Id
    BY <2>1, StandsAt
  <2>2. ASSUME NEW p \in Task, Step(p) \/ Cancel(p)
        PROVE  struck' \subseteq struck \cup Id
    <3>1. CASE SaveFails(p)
      BY <2>1, <3>1 DEF SaveFails
    <3>2. CASE Wake(p)
      BY <2>1, <3>2 DEF Wake
    <3>3. CASE Cancel(p)
      BY <1>2, <3>3 DEF Cancel
    <3>4. CASE Step(p) /\ struck' = struck
      BY <3>4
    <3> QED
      BY <2>2, <3>1, <3>2, <3>3, <3>4 DEF Step, SaveAndTakeIn, AppendRecentEvent, ListAlerts,
                    AcquireLock, GetAlert, RecordAlertTrigger, EvaluationFails
  <2>4. ASSUME NEW p \in Task, NEW e \in FeedEvents, PublishEvent(p, e)
        PROVE  struck' = struck
    BY <2>4 DEF PublishEvent
  <2>5. CASE Tools \/ Registration \/ UNCHANGED vars
    BY <1>1, <2>5 DEF Tools, CreateAlert, EnableAlert, DisableAlert, Subscribe, SendLine,
                    Disconnect, Registration, vars, Bookkeeping
  <2>6. CASE struck' \subseteq struck \cup Id
    BY <1>1, <2>6 DEF Bookkeeping
  <2>7. CASE struck' = struck
    BY <2>6, <2>7
  <2>8. Restart => struck' \subseteq Id
    BY <1>2 DEF Restart, Bookkeeping
  <2> QED
    BY <1>1, <2>2, <2>4, <2>5, <2>6, <2>7, <2>8 DEF Next
<1>4. woken' \subseteq Consumer \X Id'
  <2>1. ASSUME NEW p \in Task, Wake(p)
        PROVE  woken' \subseteq Consumer \X Id'
    <3>1. Current(p) \in Id
      BY <2>1, StandsAt DEF Wake
    <3>2. consumers \subseteq Consumer
      BY DEF IInv, StoreTypeOK
    <3>3. RelevantConsumers(events[Current(p)].routing) \subseteq Consumer
      BY <3>2 DEF RelevantConsumers
    <3>4. woken' \subseteq
             woken \cup (RelevantConsumers(events[Current(p)].routing) \X {Current(p)})
      BY <2>1 DEF Wake
    <3> QED
      BY <1>1, <3>1, <3>3, <3>4 DEF Bookkeeping
  <2>2. CASE woken' = woken
    BY <1>1, <2>2 DEF Bookkeeping
  <2>3. ASSUME NEW p \in Task, Step(p)
        PROVE  woken' = woken \/ Wake(p)
    BY <2>3 DEF Step, SaveAndTakeIn, SaveFails, AppendRecentEvent, ListAlerts,
                AcquireLock, GetAlert, RecordAlertTrigger, EvaluationFails
  <2>4. ASSUME NEW p \in Task, Cancel(p)
        PROVE  woken' = woken
    BY <2>4 DEF Cancel
  <2>5. ASSUME NEW p \in Task, NEW e \in FeedEvents, PublishEvent(p, e)
        PROVE  woken' = woken
    BY <2>5 DEF PublishEvent
  <2>6. CASE Tools \/ Registration \/ Restart \/ UNCHANGED vars
    BY <2>2, <2>6 DEF Tools, CreateAlert, EnableAlert, DisableAlert, Subscribe, SendLine,
                    Disconnect, Registration, Restart, vars
  <2> QED
    BY <2>1, <2>2, <2>3, <2>4, <2>5, <2>6 DEF Next
<1>5. faults' \in 0..MaxFaults
  <2>1. CASE faults' = faults
    BY <2>1 DEF Bookkeeping
  <2>2. CASE Fault
    BY <2>2, PublicationAssumption DEF Fault, Bookkeeping
  <2>3. ASSUME NEW p \in Task, Step(p) \/ Cancel(p)
        PROVE  Fault \/ faults' = faults
    BY <2>3 DEF Step, SaveAndTakeIn, SaveFails, AppendRecentEvent, Wake, ListAlerts,
                AcquireLock, GetAlert, RecordAlertTrigger, EvaluationFails, Cancel
  <2>4. ASSUME NEW p \in Task, NEW e \in FeedEvents, PublishEvent(p, e)
        PROVE  faults' = faults
    BY <2>4 DEF PublishEvent
  <2>5. CASE Tools \/ Registration \/ Restart \/ UNCHANGED vars
    BY <2>1, <2>2, <2>5 DEF Tools, CreateAlert, EnableAlert, DisableAlert, Subscribe, SendLine,
                    Disconnect, Registration, Restart, vars
  <2> QED
    BY <2>1, <2>2, <2>3, <2>4, <2>5 DEF Next
<1>6. /\ enabled' \subseteq alerts' /\ alerts' \subseteq Alert
      /\ enablings' \in [Alert -> 0..MaxEnabled] /\ IsFiniteSet(Times')
  <2>1. CASE UNCHANGED <<alerts, enablings>> /\ enabled' \subseteq enabled
    BY <2>1 DEF Bookkeeping, Times
  <2>2. ASSUME NEW a \in Alert, CreateAlert(a) \/ EnableAlert(a)
        PROVE  /\ enabled' \subseteq alerts' /\ alerts' \subseteq Alert
               /\ enablings' \in [Alert -> 0..MaxEnabled] /\ IsFiniteSet(Times')
    <3>1. /\ MayEnable /\ enablings' = [enablings EXCEPT ![a] = @ + 1]
          /\ enabled' = enabled \cup {a}
          /\ alerts' = alerts \cup {a}
      BY <2>2 DEF CreateAlert, EnableAlert
    <3> QED
      BY <3>1, EnablingsBounded DEF Bookkeeping
  <2>3. ASSUME NEW p \in Task, Step(p) \/ Cancel(p)
        PROVE  UNCHANGED <<alerts, enablings>> /\ enabled' \subseteq enabled
    BY <2>3 DEF Step, SaveAndTakeIn, SaveFails, AppendRecentEvent, Wake, ListAlerts,
                AcquireLock, GetAlert, RecordAlertTrigger, RecordTrigger, EvaluationFails,
                Cancel, alertVars
  <2>4. ASSUME NEW p \in Task, NEW e \in FeedEvents, PublishEvent(p, e)
        PROVE  UNCHANGED <<alerts, enablings>> /\ enabled' \subseteq enabled
    BY <2>4 DEF PublishEvent, alertVars
  <2>5. CASE Registration \/ Restart \/ UNCHANGED vars
    BY <2>1, <2>5 DEF Registration, Restart, vars, alertVars
  <2>6. CASE Tools
    BY <2>1, <2>2, <2>6 DEF Tools, DisableAlert, Subscribe, SendLine, Disconnect, alertVars
  <2> QED
    BY <2>1, <2>2, <2>3, <2>4, <2>5, <2>6 DEF Next
<1> QED
  BY <1>3, <1>4, <1>5, <1>6 DEF Bookkeeping

\* Types, debts and the bookkeeping, with everything they rest on.
THEOREM DebtInvariance == Spec => [](Debts /\ Bookkeeping)
<1>1. Init => Debts /\ Bookkeeping
  <2> SUFFICES ASSUME Init PROVE Debts /\ Bookkeeping
    OBVIOUS
  <2>1. events = <<>> /\ Len(events) = 0 /\ consumer_event_state = {}
    BY DEF Init, StoreInit
  <2>2. Id = {}
    BY <2>1 DEF Id
  <2>3. Times = {}
    <3>1. \A e \in Alert \X (1..MaxEnabled) : e[1] \in Alert /\ e[2] \in 1..MaxEnabled
      OBVIOUS
    <3>2. \A e \in Alert \X (1..MaxEnabled) : enablings[e[1]] = 0 /\ ~(e[2] <= 0)
      BY <3>1, PublicationAssumption DEF Init
    <3> QED
      BY <3>2 DEF Times
  <2>4. IsFiniteSet(Times)
    BY <2>3, FS_EmptySet
  <2>5. enablings \in [Alert -> 0..MaxEnabled] /\ faults \in 0..MaxFaults
    BY PublicationAssumption DEF Init
  <2> QED
    BY <2>1, <2>2, <2>4, <2>5 DEF Init, Debts, Bookkeeping
<1>2. Control /\ IInv /\ Debts /\ Bookkeeping /\ [Next]_vars => (Debts /\ Bookkeeping)'
  BY DebtsNext, BookkeepingNext
<1> QED
  BY <1>1, <1>2, PublicationInvariance, PTL DEF Spec

\* The parts of the invariant give the types.
LEMMA TypesHold ==
    ASSUME Control, IInv, Orders, Streams, Bookkeeping
    PROVE  TypeOK
<1>1. StoreTypeOK /\ events \in Seq(Event) /\ task \in [Task -> Seq(Frame)]
  BY DEF IInv, Control, EventsOK
<1>2. \A p \in Task : Len(task[p]) <= 2
  BY DEF Control, StackOK
<1>3. lock \in [Alert -> Task \cup {None}]
  BY DEF Control, LocksOK
<1>4. ASSUME NEW a \in Alert, lock[a] # None
      PROVE  \E k \in DOMAIN task[lock[a]] :
                task[lock[a]][k].alert = a /\ task[lock[a]][k].pc \in {"fresh", "record"}
  <2>1. PICK p \in Task : p = lock[a] /\ Holds(p, a)
    BY <1>3, <1>4 DEF Control, LocksOK
  <2>2. task[p] \in Seq(Frame) /\ Len(task[p]) > 0 /\ Len(task[p]) \in Nat
    BY <1>1, <2>1 DEF Holds
  <2>3. Len(task[p]) \in DOMAIN task[p]
    BY <2>2
  <2>4. task[p][Len(task[p])].alert = a /\ task[p][Len(task[p])].pc \in {"fresh", "record"}
    BY <2>1 DEF Holds, Bottom, Holding
  <2> QED
    BY <2>1, <2>3, <2>4
<1>5. /\ {_event_history, recent_events} \subseteq Seq(Id)
      /\ Len(_event_history) <= Capacity /\ Len(recent_events) <= Capacity
      /\ broadcasts \in Seq(Id)
  BY DEF Orders, Ordered, Id
<1>6. ASSUME NEW s \in Subscriber
      PROVE  /\ subscriber[s] \in [open : BOOLEAN, start : Nat, queue : Seq(Id), sent : Seq(Id)]
             /\ Len(subscriber[s].queue) <= QueueSize
  <2> DEFINE u == subscriber[s]
  <2>1. Stream(u, broadcasts)
    BY DEF Streams
  <2> HIDE DEF u
  <2>2. /\ u \in [open : BOOLEAN, start : Nat, queue : Seq(Nat), sent : Seq(Nat)]
        /\ u.start \in Nat /\ u.queue \in Seq(Nat) /\ u.sent \in Seq(Nat)
        /\ Len(u.queue) <= QueueSize
    BY <2>1 DEF Stream
  <2>3. PICK n \in Nat, q \in Nat, l \in Nat, k \in Nat :
           n = Len(u.sent) /\ q = Len(u.queue) /\ l = Len(broadcasts) /\ k = u.start
    BY <1>5, <2>2
  <2>4. k + n + q <= l
    BY <2>1, <2>3 DEF Stream
  <2>5. \A i \in 1..l : broadcasts[i] \in Id
    BY <1>5, <2>3
  <2>6. ASSUME NEW i \in 1..n PROVE u.sent[i] \in Id
    <3>1. k + i \in 1..l
      BY <2>4
    <3> QED
      BY <2>1, <2>3, <2>5, <3>1 DEF Stream
  <2>7. ASSUME NEW i \in 1..q PROVE u.queue[i] \in Id
    <3>1. k + n + i \in 1..l
      BY <2>4
    <3> QED
      BY <2>1, <2>3, <2>5, <3>1 DEF Stream
  <2>8. u.sent \in [1..n -> Id] /\ u.queue \in [1..q -> Id]
    BY <2>2, <2>3, <2>6, <2>7, LenProperties
  <2>9. u.sent \in Seq(Id) /\ u.queue \in Seq(Id)
    BY <2>8, SeqDef
  <2> QED
    BY <2>2, <2>9 DEF u
<1>7. subscriber \in [Subscriber ->
          [open : BOOLEAN, start : Nat, queue : Seq(Id), sent : Seq(Id)]]
  BY <1>6 DEF Streams
<1>8. _subscribers \subseteq {s \in Subscriber : subscriber[s].open}
  BY DEF Streams
<1> QED
  BY <1>1, <1>2, <1>3, <1>4, <1>5, <1>6, <1>7, <1>8 DEF TypeOK, Bookkeeping

\* Every consumer the store owes an event was woken for it, once the publication is past
\* that step and no fault cut it short, and every variable is of its type.
THEOREM NobodySleepsOnADebt == Spec => []OwedAreWoken
<1>1. ASSUME Control, Debts, NEW row \in consumer_event_state, NEW n \in Id
      PROVE  \/ events[n].sequence # row[2]
             \/ n \in struck
             \/ \E p \in Task, k \in 1..2 :
                   /\ k <= Len(task[p])
                   /\ task[p][k].id = n
                   /\ task[p][k].pc \in {"save", "journal", "wake"}
             \/ <<row[1], n>> \in woken
  <2>1. CASE EarlyOf(n)
    <3>1. PICK p \in Task : EarlyAt(p) /\ task[p][1].id = n
      BY <2>1 DEF EarlyOf
    <3>2. Len(task[p]) > 0 /\ Len(task[p]) \in Nat /\ task[p][1].pc \in Early
      BY <1>1, <3>1 DEF EarlyAt, Control
    <3>3. 1 <= Len(task[p]) /\ 1 \in 1..2
      BY <3>2
    <3> QED
      BY <3>1, <3>2, <3>3 DEF Early
  <2> QED
    BY <1>1, <2>1 DEF Debts
<1>2. Control /\ IInv /\ Orders /\ Streams /\ Debts /\ Bookkeeping => OwedAreWoken
  BY <1>1, TypesHold DEF OwedAreWoken
<1> QED
  BY <1>2, PublicationInvariance, DeliveryInvariance, DebtInvariance, PTL

-----------------------------------------------------------------------------
(* One trigger for each enabling. *)

\* Task q is between the trigger of alert a and its record.
Records(q, a) == Len(task[q]) > 0 /\ Bottom(q).pc = "record" /\ Bottom(q).alert = a

\* The trigger is not in the store yet.
Unsaved(q, a) == Len(task[q]) = 2 /\ task[q][1].pc = "save" /\ task[q][2].alert = a

\* Alert a may trigger once more, or is about to be saved as triggered.
Armed(a) ==
    \/ \E q \in Task : Unsaved(q, a)
    \/ a \in enabled /\ \A q \in Task : ~Records(q, a)

Shots(a) == IF Armed(a) THEN 1 ELSE 0

TriggersOf(a) == {n \in Id : events[n].alert = a /\ events[n].sequence > 0}

Accounts == \A a \in OneShot : Triggered(a) + Shots(a) <= enablings[a] + faults

\* What a step does to the triggers of an alert in the store: it leaves them, or saves
\* one more, of an alert that was armed.
LEMMA TriggersCount ==
    ASSUME Control
    PROVE  \A a \in Alert : IsFiniteSet(TriggersOf(a)) /\ Triggered(a) \in Nat
<1>1. IsFiniteSet(Id)
  <2>1. Len(events) \in Int
    BY DEF Control, EventsOK
  <2> QED
    BY <2>1, FS_Interval DEF Id
<1> SUFFICES ASSUME NEW a \in Alert
             PROVE  IsFiniteSet(TriggersOf(a)) /\ Triggered(a) \in Nat
  OBVIOUS
<1>2. TriggersOf(a) \subseteq Id
  BY DEF TriggersOf
<1>3. IsFiniteSet(TriggersOf(a))
  BY <1>1, <1>2, FS_Subset
<1>4. Triggered(a) = Cardinality(TriggersOf(a))
  BY DEF Triggered, TriggersOf
<1> QED
  BY <1>3, <1>4, FS_CardinalityType

\* After a step, too, the triggers of an alert can be counted.
LEMMA TriggersCountNext ==
    ASSUME Control', NEW a \in Alert
    PROVE  Triggered(a)' \in Nat
<1>1. IsFiniteSet(Id')
  <2>1. Len(events') \in Int
    BY DEF Control, EventsOK
  <2> QED
    BY <2>1, FS_Interval DEF Id
<1>2. IsFiniteSet(TriggersOf(a)')
  <2>1. TriggersOf(a)' \subseteq Id'
    BY DEF TriggersOf
  <2> QED
    BY <1>1, <2>1, FS_Subset
<1>3. Triggered(a)' = Cardinality(TriggersOf(a)')
  BY DEF Triggered, TriggersOf
<1> QED
  BY <1>2, <1>3, FS_CardinalityType

\* One saved event is at most one more trigger, and only of its own alert.
LEMMA TriggersSaved ==
    ASSUME Control, Control', EventsKeep, NEW a \in Alert, NEW n \in Id,
           Id' = Id, \A m \in Id : m # n => events'[m] = events[m]
    PROVE  /\ Triggered(a)' <= Triggered(a) + 1
           /\ events[n].alert # a => Triggered(a)' = Triggered(a)
<1>1. /\ IsFiniteSet(TriggersOf(a)) /\ Triggered(a) \in Nat
      /\ Triggered(a) = Cardinality(TriggersOf(a))
      /\ (Triggered(a) = Cardinality(TriggersOf(a)))'
  BY TriggersCount DEF Triggered, TriggersOf
<1>2. TriggersOf(a)' \subseteq TriggersOf(a) \cup {n}
  BY DEF TriggersOf
<1>3. /\ IsFiniteSet(TriggersOf(a) \cup {n})
      /\ Cardinality(TriggersOf(a) \cup {n}) =
            IF n \in TriggersOf(a) THEN Cardinality(TriggersOf(a)) ELSE Cardinality(TriggersOf(a)) + 1
  BY <1>1, FS_AddElement
<1>4. Cardinality(TriggersOf(a)') <= Cardinality(TriggersOf(a) \cup {n})
      /\ IsFiniteSet(TriggersOf(a)')
  BY <1>2, <1>3, FS_Subset
<1>5. Cardinality(TriggersOf(a)') \in Nat
  BY <1>4, FS_CardinalityType
<1>6. Triggered(a)' <= Triggered(a) + 1
  BY <1>1, <1>3, <1>4, <1>5
<1>7. ASSUME events[n].alert # a
      PROVE  TriggersOf(a)' = TriggersOf(a)
  <2>1. \A m \in Id : /\ events'[m].alert = events[m].alert
                      /\ m # n => events'[m] = events[m]
    BY DEF EventsKeep
  <2>2. \A m \in Id : (events'[m].alert = a /\ events'[m].sequence > 0)
                         <=> (events[m].alert = a /\ events[m].sequence > 0)
    BY <1>7, <2>1
  <2> QED
    BY <2>2 DEF TriggersOf
<1> QED
  BY <1>1, <1>6, <1>7

\* Without a save nothing is triggered: a new event has no sequence.
LEMMA TriggersStay ==
    ASSUME Control, NEW a \in Alert,
           events' = events \/ \E e : e.sequence = 0 /\ events' = Append(events, e)
    PROVE  Triggered(a)' = Triggered(a)
<1>1. events \in Seq(Event) /\ Len(events) \in Nat
  BY DEF Control, EventsOK
<1>2. CASE events' = events
  BY <1>2 DEF Triggered, Id
<1>3. ASSUME NEW e, e.sequence = 0, events' = Append(events, e)
      PROVE  Triggered(a)' = Triggered(a)
  <2>1. /\ Len(events') = Len(events) + 1 /\ events'[Len(events) + 1] = e
        /\ \A m \in 1..Len(events) : events'[m] = events[m]
    BY <1>1, <1>3
  <2>2. \A m \in Id' : m \in Id \/ m = Len(events) + 1
    BY <1>1, <2>1 DEF Id
  <2>3. Id \subseteq Id' /\ ~(0 > 0)
    BY <1>1, <2>1 DEF Id
  <2>4. \A m \in Id : events'[m] = events[m]
    BY <2>1 DEF Id
  <2>5. TriggersOf(a)' = TriggersOf(a)
    BY <1>3, <2>1, <2>2, <2>3, <2>4 DEF TriggersOf
  <2> QED
    BY <2>5 DEF Triggered, TriggersOf
<1> QED
  BY <1>2, <1>3

\* An alert on whose records nothing changes is armed after a step only if it was before.
LEMMA ArmedStays ==
    ASSUME NEW a \in Alert, Armed(a)',
           \A q \in Task : (Unsaved(q, a)' => Unsaved(q, a)) /\ (Records(q, a) => Records(q, a)'),
           a \in enabled' => a \in enabled
    PROVE  Armed(a)
BY DEF Armed

\* A trigger not in the store yet is one to be recorded, and who records an alert has
\* its lock to itself.
LEMMA OneRecorder ==
    ASSUME Control, NEW a \in Alert, NEW q \in Task
    PROVE  /\ Unsaved(q, a) => Records(q, a)
           /\ \A p \in Task : Records(q, a) /\ Holds(p, a) => p = q
           /\ Records(q, a) => Holds(q, a)
<1>1. ASSUME Unsaved(q, a)
      PROVE  Records(q, a)
  <2>1. Len(task[q]) = 2 /\ task[q][2].alert = a
    BY <1>1 DEF Unsaved
  <2>2. Bottom(q) = task[q][2] /\ task[q][2].pc = "record" /\ Len(task[q]) > 0
    BY <2>1, StackShape DEF Control, StackOK
  <2> QED
    BY <2>1, <2>2 DEF Records
<1>2. Records(q, a) => Holds(q, a)
  BY DEF Records, Holds, Holding
<1>3. \A p \in Task : Holds(p, a) => lock[a] = p
  BY DEF Control, LocksOK
<1> QED
  BY <1>1, <1>2, <1>3

\* What an evaluation leaves of a stack of one.
LEMMA EvaluateLen ==
    ASSUME Control, NEW p \in Task, Len(task[p]) = 1, NEW todo, Evaluate(p, todo)
    PROVE  Len(task'[p]) # 2 /\ \A q \in Task : q # p => task'[q] = task[q]
<1>1. task \in [Task -> Seq(Frame)] /\ task[p] \in Seq(Frame) /\ task[p] # <<>>
  BY StackShape DEF Control
<1>2. CASE todo = {}
  <2>1. task'[p] = Tail(task[p]) /\ \A q \in Task : q # p => task'[q] = task[q]
    BY <1>1, <1>2 DEF Evaluate
  <2>2. Len(Tail(task[p])) = 0
    BY <1>1
  <2> QED
    BY <2>1, <2>2
<1>3. CASE todo # {}
  <2>1. PICK a \in todo :
           task' = [task EXCEPT ![p][1] = [@ EXCEPT !.pc = "lock", !.todo = todo \ {a}, !.alert = a]]
    BY <1>3 DEF Evaluate
  <2> DEFINE f == [task[p][1] EXCEPT !.pc = "lock", !.todo = todo \ {a}, !.alert = a]
  <2>2. task' = [task EXCEPT ![p][1] = f]
    BY <2>1
  <2> HIDE DEF f
  <2>3. task'[p] = [task[p] EXCEPT ![1] = f] /\ \A q \in Task : q # p => task'[q] = task[q]
    BY <1>1, <2>2
  <2>4. Len([task[p] EXCEPT ![1] = f]) = 1
    BY <1>1
  <2> QED
    BY <2>3, <2>4
<1> QED
  BY <1>2, <1>3

\* A step of p leaves the records and the triggers of the other tasks.
LEMMA OthersRecord ==
    ASSUME NEW a \in Alert, NEW q \in Task, task'[q] = task[q]
    PROVE  (Unsaved(q, a)' <=> Unsaved(q, a)) /\ (Records(q, a)' <=> Records(q, a))
BY DEF Unsaved, Records, Bottom

\* The publication of p goes on with frame f on top.
LEMMA TopRecord ==
    ASSUME Control, NEW p \in Task, Len(task[p]) > 0, NEW f, task' = [task EXCEPT ![p][1] = f],
           task[p][1].pc # "record", f.pc # "save", NEW a \in Alert
    PROVE  /\ ~Unsaved(p, a)' /\ (Records(p, a) => Records(p, a)')
           /\ \A q \in Task : q # p => task'[q] = task[q]
<1>1. task \in [Task -> Seq(Frame)] /\ task[p] \in Seq(Frame) /\ Len(task[p]) \in {1, 2}
  BY StackShape DEF Control
<1>2. task'[p] = [task[p] EXCEPT ![1] = f] /\ \A q \in Task : q # p => task'[q] = task[q]
  BY <1>1
<1>3. /\ Len([task[p] EXCEPT ![1] = f]) = Len(task[p])
      /\ [task[p] EXCEPT ![1] = f][1] = f
      /\ Len(task[p]) = 2 => [task[p] EXCEPT ![1] = f][2] = task[p][2]
  BY <1>1
<1>4. Len(task'[p]) = Len(task[p]) /\ task'[p][1] = f
      /\ (Len(task[p]) = 2 => task'[p][2] = task[p][2])
  BY <1>2, <1>3
<1>5. ~Unsaved(p, a)'
  BY <1>4 DEF Unsaved
<1>6. ASSUME Records(p, a)
      PROVE  Records(p, a)'
  <2>1. Len(task[p]) = 2
    BY <1>1, <1>6 DEF Records, Bottom
  <2>2. Bottom(p)' = Bottom(p)
    BY <1>4, <2>1 DEF Bottom
  <2> QED
    BY <1>4, <1>6, <2>2 DEF Records
<1> QED
  BY <1>2, <1>5, <1>6

\* How a step may touch the account of a one-shot alert.
Charged(a) ==
    /\ faults' = faults + 1 /\ enablings' = enablings
    /\ Triggered(a)' <= Triggered(a) + Shots(a)

Kept(a) ==
    /\ faults' = faults /\ enablings'[a] = enablings[a]
    /\ \/ Triggered(a)' = Triggered(a) /\ (Armed(a)' => Armed(a))
       \/ Triggered(a)' <= Triggered(a) + 1 /\ Armed(a) /\ ~Armed(a)'

Credited(a) ==
    /\ faults' = faults /\ enablings'[a] = enablings[a] + 1
    /\ Triggered(a)' = Triggered(a)

\* A save of an event: of a trigger not saved yet, or of nothing to do with the alert.
LEMMA SaveAccounts ==
    ASSUME Control, IInv, Control', EventsKeep, NEW p \in Task, NEW a \in Alert,
           At(p, "save"), SaveEvent(Current(p))
    PROVE  \/ Triggered(a)' = Triggered(a)
           \/ Triggered(a)' <= Triggered(a) + 1 /\ Unsaved(p, a)
<1>1. /\ Current(p) \in Id /\ Current(p) = task[p][1].id /\ task[p][1].pc = "save"
      /\ Len(task[p]) \in {1, 2}
  BY StandsAt
<1>2. PICK n \in Id : n = Current(p)
  BY <1>1
<1>3. nextSequence \in Nat /\ EventsOK
  BY EventStoreAssumption DEF Control, IInv, StoreTypeOK
<1>4. Id' = Id /\ \A m \in Id : m # n => events'[m] = events[m]
  BY <1>2, <1>3, EventsSaved DEF SaveEvent
<1>5. CASE events[n].alert # a
  BY <1>4, <1>5, TriggersSaved
<1>6. CASE events[n].alert = a
  <2>1. Len(task[p]) # 1
    <3> SUFFICES ASSUME Len(task[p]) = 1 PROVE FALSE
      OBVIOUS
    <3>1. Bottom(p) = task[p][1] /\ Len(task[p]) > 0
      BY StackShape
    <3>2. events[Bottom(p).id].alert = None
      BY <3>1 DEF Control, StackOK
    <3> QED
      BY <1>1, <1>2, <1>6, <3>1, <3>2, PublicationAssumption
  <2>2. Len(task[p]) = 2 /\ task[p][2].alert = a
    BY <1>1, <1>2, <1>6, <2>1 DEF Control, StackOK
  <2>3. Triggered(a)' <= Triggered(a) + 1
    BY <1>4, TriggersSaved
  <2> QED
    BY <1>1, <2>2, <2>3 DEF Unsaved
<1> QED
  BY <1>5, <1>6

\* A step charges an alert's account, leaves it, or credits it.
LEMMA AccountsMove ==
    ASSUME Control, IInv, Bookkeeping, [Next]_vars, NEW a \in OneShot
    PROVE  Charged(a) \/ Kept(a) \/ Credited(a)
<1>1. a \in Alert /\ Control' /\ EventsKeep /\ task \in [Task -> Seq(Frame)]
  BY ControlNext, PublicationAssumption DEF Control
<1>2. Triggered(a) \in Nat /\ Shots(a) \in {0, 1} /\ (Armed(a) => Shots(a) = 1)
  BY <1>1, TriggersCount DEF Shots
<1>3. ASSUME faults' = faults + 1, enablings' = enablings, Triggered(a)' = Triggered(a)
      PROVE  Charged(a)
  BY <1>2, <1>3 DEF Charged
<1>4. ASSUME faults' = faults, enablings' = enablings, Triggered(a)' = Triggered(a),
             a \in enabled' => a \in enabled,
             \A q \in Task : /\ Unsaved(q, a)' => Unsaved(q, a)
                             /\ Records(q, a) => Records(q, a)'
      PROVE  Kept(a)
  BY <1>1, <1>4, ArmedStays DEF Kept
<1>5. ASSUME events' = events
      PROVE  Triggered(a)' = Triggered(a)
  BY <1>1, <1>5, TriggersStay
<1>6. ASSUME NEW p \in Task, \A q \in Task : q # p => task'[q] = task[q],
             ~Unsaved(p, a)', Records(p, a) => Records(p, a)'
      PROVE  \A q \in Task : /\ Unsaved(q, a)' => Unsaved(q, a)
                             /\ Records(q, a) => Records(q, a)'
  BY <1>1, <1>6, OthersRecord
<1>7. ASSUME NEW p \in Task, NEW e \in FeedEvents, PublishEvent(p, e)
      PROVE  Kept(a)
  <2>1. \E v : v.sequence = 0 /\ events' = Append(events, v)
    BY <1>7 DEF PublishEvent
  <2>2. Triggered(a)' = Triggered(a)
    BY <1>1, <2>1, TriggersStay
  <2>3. PICK f : task' = [task EXCEPT ![p] = <<f>>]
    BY <1>7 DEF PublishEvent
  <2>4. task'[p] = <<f>> /\ Len(task'[p]) = 1 /\ \A q \in Task : q # p => task'[q] = task[q]
    BY <1>1, <2>3
  <2>5. ~Unsaved(p, a)'
    BY <2>4 DEF Unsaved
  <2>6. task[p] = <<>> /\ Len(task[p]) = 0
    BY <1>7 DEF PublishEvent
  <2>7. ~Records(p, a)
    BY <2>6 DEF Records
  <2>8. faults' = faults /\ enablings' = enablings /\ enabled' = enabled
    BY <1>7 DEF PublishEvent, alertVars
  <2> QED
    BY <1>4, <1>6, <2>2, <2>4, <2>5, <2>7, <2>8
<1>8. ASSUME NEW p \in Task, SaveAndTakeIn(p)
      PROVE  Kept(a)
  <2>1. /\ At(p, "save") /\ SaveEvent(Current(p)) /\ Go(p, "journal")
        /\ faults' = faults /\ enablings' = enablings /\ enabled' = enabled
    BY <1>8 DEF SaveAndTakeIn, alertVars
  <2>2. /\ Len(task[p]) > 0 /\ task[p][1].pc = "save" /\ task[p][1] \in Frame
    BY <2>1, StandsAt
  <2> DEFINE f == [task[p][1] EXCEPT !.pc = "journal"]
  <2>3. f.pc # "save" /\ task' = [task EXCEPT ![p][1] = f]
    BY <2>1, <2>2 DEF Go, Frame
  <2> HIDE DEF f
  <2>4. /\ ~Unsaved(p, a)' /\ (Records(p, a) => Records(p, a)')
        /\ \A q \in Task : q # p => task'[q] = task[q]
    BY <1>1, <2>2, <2>3, TopRecord
  <2>5. CASE Triggered(a)' = Triggered(a)
    BY <1>4, <1>6, <2>1, <2>4, <2>5
  <2>6. CASE Triggered(a)' <= Triggered(a) + 1 /\ Unsaved(p, a)
    <3>1. Records(p, a) /\ Records(p, a)' /\ Holds(p, a)
      BY <1>1, <2>4, <2>6, OneRecorder
    <3>2. \A q \in Task : ~Unsaved(q, a)'
      BY <1>1, <2>4, <3>1, OneRecorder, OthersRecord
    <3>3. ~Armed(a)' /\ Armed(a)
      BY <2>6, <3>1, <3>2 DEF Armed
    <3> QED
      BY <2>1, <2>6, <3>3 DEF Kept
  <2> QED
    BY <1>1, <2>1, <2>5, <2>6, SaveAccounts
<1>9. ASSUME NEW p \in Task, AppendRecentEvent(p)
      PROVE  Charged(a) \/ Kept(a)
  <2>1. /\ At(p, "journal") /\ Go(p, "wake") /\ events' = events
        /\ enablings' = enablings /\ enabled' = enabled
        /\ faults' = faults \/ faults' = faults + 1
    BY <1>9 DEF AppendRecentEvent, alertVars, Fault
  <2>2. /\ Len(task[p]) > 0 /\ task[p][1].pc = "journal" /\ task[p][1] \in Frame
    BY <2>1, StandsAt
  <2> DEFINE f == [task[p][1] EXCEPT !.pc = "wake"]
  <2>3. f.pc # "save" /\ task' = [task EXCEPT ![p][1] = f]
    BY <2>1, <2>2 DEF Go, Frame
  <2> HIDE DEF f
  <2>4. /\ ~Unsaved(p, a)' /\ (Records(p, a) => Records(p, a)')
        /\ \A q \in Task : q # p => task'[q] = task[q]
    BY <1>1, <2>2, <2>3, TopRecord
  <2> QED
    BY <1>3, <1>4, <1>5, <1>6, <2>1, <2>4
<1>10. ASSUME NEW p \in Task, Wake(p)
       PROVE  Charged(a) \/ Kept(a)
  <2>1. /\ At(p, "wake") /\ Proceed(p, AfterBroadcast(p)) /\ events' = events
        /\ enablings' = enablings /\ enabled' = enabled
        /\ faults' = faults \/ faults' = faults + 1
    BY <1>10 DEF Wake, alertVars, Fault
  <2>2. /\ Len(task[p]) \in {1, 2} /\ task[p][1].pc = "wake" /\ task[p] \in Seq(Frame)
        /\ task[p] # <<>> /\ Head(task[p]) = task[p][1] /\ task[p][1] \in Frame
    BY <1>1, <2>1, StandsAt
  <2>3. \A q \in Task : q # p => task'[q] = task[q]
    BY <1>1, <2>1 DEF Proceed
  <2>4. ~Unsaved(p, a)' /\ (Records(p, a) => Records(p, a)')
    <3>1. CASE AfterBroadcast(p) = "done"
      <4>1. task'[p] = Tail(task[p])
        BY <1>1, <2>1, <3>1 DEF Proceed
      <4>2. /\ Len(Tail(task[p])) = Len(task[p]) - 1 /\ Len(Tail(task[p])) # 2
            /\ Len(task[p]) = 2 => Tail(task[p])[1] = task[p][2] /\ Len(Tail(task[p])) = 1
        <5>1. Tail(task[p]) \in Seq(Frame) /\ Len(Tail(task[p])) = Len(task[p]) - 1
          BY <2>2
        <5>2. CASE Len(task[p]) = 1
          BY SMTT(30), <5>1, <5>2
        <5>3. CASE Len(task[p]) = 2
          <6> DEFINE t == Tail(task[p])
          <6>1. t[1] = task[p][2] /\ Len(t) = 1
            BY <2>2, <5>3
          <6> HIDE DEF t
          <6>2. Len(t) = Len(task[p]) - 1 /\ Len(t) # 2
            BY <5>3, <6>1
          <6> QED
            BY <6>1, <6>2 DEF t
        <5> QED
          BY <2>2, <5>1, <5>2, <5>3
      <4>3. ~Unsaved(p, a)'
        BY <4>1, <4>2 DEF Unsaved
      <4>4. ASSUME Records(p, a)
            PROVE  Records(p, a)'
        <5>1. Len(task[p]) = 2
          BY <2>2, <4>4 DEF Records, Bottom
        <5>2. Len(task'[p]) = 1 /\ task'[p][1] = task[p][2]
          BY <4>1, <4>2, <5>1
        <5>3. Bottom(p)' = Bottom(p) /\ Len(task'[p]) > 0
          BY <5>1, <5>2 DEF Bottom
        <5> QED
          BY <4>4, <5>3 DEF Records
      <4> QED
        BY <4>3, <4>4
    <3>2. CASE AfterBroadcast(p) # "done"
      <4>1. AfterBroadcast(p) = "candidates"
        BY <3>2 DEF AfterBroadcast
      <4> DEFINE f == [task[p][1] EXCEPT !.pc = "candidates"]
      <4>2. f \in Frame /\ f.pc = "candidates"
        BY <2>2 DEF Frame
      <4>3. task' = [task EXCEPT ![p] = <<f>> \o Tail(task[p])]
        BY <2>1, <2>2, <4>1 DEF Proceed
      <4> HIDE DEF f
      <4>4. <<f>> \o Tail(task[p]) = [task[p] EXCEPT ![1] = f]
        <5>1. CASE Len(task[p]) = 1
          BY <2>2, <4>2, <5>1
        <5>2. CASE Len(task[p]) = 2
          BY <2>2, <4>2, <5>2
        <5> QED
          BY <2>2, <5>1, <5>2
      <4>5. task' = [task EXCEPT ![p][1] = f]
        BY <4>3, <4>4
      <4>6. Len(task[p]) > 0 /\ task[p][1].pc # "record" /\ f.pc # "save"
        BY <2>2, <4>2
      <4> QED
        BY <1>1, <4>5, <4>6, TopRecord
    <3> QED
      BY <3>1, <3>2
  <2> QED
    BY <1>3, <1>4, <1>5, <1>6, <2>1, <2>3, <2>4
<1>11. ASSUME NEW p \in Task, NEW pc, At(p, pc), pc \notin Early, NEW todo, Evaluate(p, todo),
              events' = events, faults' = faults, enablings' = enablings,
              a \in enabled' => a \in enabled,
              Records(p, a) => a \notin enabled'
       PROVE  Kept(a)
  <2>1. Len(task[p]) = 1
    BY <1>11, StandsAt
  <2>2. Len(task'[p]) # 2 /\ \A q \in Task : q # p => task'[q] = task[q]
    BY <1>11, <2>1, EvaluateLen
  <2>3. ~Unsaved(p, a)'
    BY <2>2 DEF Unsaved
  <2>4. CASE ~Records(p, a)
    BY <1>4, <1>5, <1>6, <1>11, <2>2, <2>3, <2>4
  <2>5. CASE Records(p, a)
    <3>1. \A q \in Task : ~Unsaved(q, a)'
      BY <1>1, <2>2, <2>3, <2>5, OneRecorder, OthersRecord
    <3>2. ~Armed(a)'
      BY <1>11, <2>5, <3>1 DEF Armed
    <3> QED
      BY <1>5, <1>11, <3>2 DEF Kept
  <2> QED
    BY <2>4, <2>5
<1>12. ASSUME NEW p \in Task, ListAlerts(p)
       PROVE  Kept(a)
  <2>1. /\ At(p, "candidates") /\ \E todo : Evaluate(p, todo)
        /\ events' = events /\ faults' = faults /\ enablings' = enablings /\ enabled' = enabled
    BY <1>12 DEF ListAlerts, alertVars
  <2>2. Len(task[p]) = 1 /\ Bottom(p) = task[p][1] /\ task[p][1].pc = "candidates"
    BY <2>1, StandsAt DEF Early
  <2>3. ~Records(p, a)
    BY <2>2 DEF Records
  <2> QED
    BY <1>11, <2>1, <2>3 DEF Early
<1>13. ASSUME NEW p \in Task, AcquireLock(p)
       PROVE  Kept(a)
  <2>1. /\ At(p, "lock") /\ Go(p, "fresh") /\ events' = events
        /\ enablings' = enablings /\ enabled' = enabled /\ faults' = faults
    BY <1>13 DEF AcquireLock, alertVars
  <2>2. /\ Len(task[p]) > 0 /\ task[p][1].pc = "lock" /\ task[p][1] \in Frame
    BY <2>1, StandsAt
  <2> DEFINE f == [task[p][1] EXCEPT !.pc = "fresh"]
  <2>3. f.pc # "save" /\ task' = [task EXCEPT ![p][1] = f]
    BY <2>1, <2>2 DEF Go, Frame
  <2> HIDE DEF f
  <2>4. /\ ~Unsaved(p, a)' /\ (Records(p, a) => Records(p, a)')
        /\ \A q \in Task : q # p => task'[q] = task[q]
    BY <1>1, <2>2, <2>3, TopRecord
  <2> QED
    BY <1>4, <1>5, <1>6, <2>1, <2>4
<1>14. ASSUME NEW p \in Task, GetAlert(p)
       PROVE  Kept(a)
  <2> DEFINE b == Head(task[p]).alert
  <2>1. /\ At(p, "fresh") /\ faults' = faults /\ enablings' = enablings /\ enabled' = enabled
    BY <1>14 DEF GetAlert, alertVars
  <2>2. /\ Len(task[p]) = 1 /\ Bottom(p) = task[p][1] /\ task[p][1].pc = "fresh"
        /\ Head(task[p]) = task[p][1] /\ Len(task[p]) > 0
    BY <2>1, StandsAt DEF Early
  <2>3. ~Records(p, a)
    BY <2>2 DEF Records
  <2>4. CASE ~StillEnabled(b)
    <3>1. (\E todo : Evaluate(p, todo)) /\ events' = events
      BY <1>14, <2>4 DEF GetAlert
    <3> QED
      BY <1>11, <2>1, <2>3, <3>1 DEF Early
  <2>5. CASE StillEnabled(b)
    <3>1. \E v : v.sequence = 0 /\ events' = Append(events, v)
      BY <1>14, <2>5 DEF GetAlert
    <3>2. Triggered(a)' = Triggered(a)
      BY <1>1, <3>1, TriggersStay
    <3> DEFINE f == NewFrame("save")
               g == [Head(task[p]) EXCEPT !.pc = "record"]
    <3>3. task' = [task EXCEPT ![p] = <<f, g>>]
      BY <1>14, <2>5 DEF GetAlert
    <3>4. g.alert = b
      <4>1. Head(task[p]) \in Frame
        BY <2>1, StandsAt
      <4> QED
        BY <4>1 DEF Frame
    <3> HIDE DEF f, g
    <3>5. task'[p] = <<f, g>> /\ \A q \in Task : q # p => task'[q] = task[q]
      BY <1>1, <3>3
    <3>6. <<f, g>>[2] = g
      OBVIOUS
    <3>7. task'[p][2].alert = b
      BY <3>4, <3>5, <3>6
    <3>8. CASE a # b
      <4>1. ~Unsaved(p, a)'
        BY <3>7, <3>8 DEF Unsaved
      <4> QED
        BY <1>4, <1>6, <2>1, <2>3, <3>2, <3>5, <4>1
    <3>9. CASE a = b
      <4>1. Holds(p, a) /\ a \in enabled
        BY <2>2, <2>5, <3>9 DEF Holds, Holding, StillEnabled
      <4>2. \A q \in Task : ~Records(q, a)
        BY <1>1, <2>3, <4>1, OneRecorder
      <4>3. Armed(a)
        BY <4>1, <4>2 DEF Armed
      <4> QED
        BY <2>1, <3>2, <4>3 DEF Kept
    <3> QED
      BY <3>8, <3>9
  <2> QED
    BY <2>4, <2>5
<1>15. ASSUME NEW p \in Task, RecordAlertTrigger(p)
       PROVE  Kept(a)
  <2>1. /\ At(p, "record") /\ (\E todo : Evaluate(p, todo)) /\ events' = events
        /\ RecordTrigger(Head(task[p]).alert) /\ faults' = faults
    BY <1>15 DEF RecordAlertTrigger
  <2>2. /\ Len(task[p]) = 1 /\ Bottom(p) = task[p][1] /\ Head(task[p]) = task[p][1]
    BY <2>1, StandsAt DEF Early
  <2>3. Records(p, a) => a = Head(task[p]).alert
    BY <2>2 DEF Records
  <2>4. /\ enablings' = enablings /\ enabled' \subseteq enabled
        /\ a = Head(task[p]).alert => a \notin enabled'
    BY <2>1 DEF RecordTrigger
  <2> QED
    BY <1>11, <2>1, <2>3, <2>4 DEF Early
<1>16. ASSUME NEW p \in Task, SaveFails(p) \/ EvaluationFails(p)
       PROVE  Charged(a)
  BY <1>3, <1>5, <1>16 DEF SaveFails, EvaluationFails, Fault, alertVars
<1>17. ASSUME NEW p \in Task, Cancel(p)
       PROVE  Charged(a)
  <2>1. faults' = faults + 1 /\ enablings' = enablings
    BY <1>17 DEF Cancel, Fault, RecordTrigger, alertVars
  <2>2. CASE events' = events
    BY <1>3, <1>5, <2>1, <2>2
  <2>3. CASE At(p, "save") /\ SaveEvent(Current(p))
    <3>1. CASE Triggered(a)' = Triggered(a)
      BY <1>3, <2>1, <3>1
    <3>2. CASE Triggered(a)' <= Triggered(a) + 1 /\ Unsaved(p, a)
      <4>1. Armed(a)
        BY <3>2 DEF Armed
      <4> QED
        BY <1>2, <2>1, <3>2, <4>1 DEF Charged
    <3> QED
      BY <1>1, <2>3, <3>1, <3>2, SaveAccounts
  <2> QED
    BY <1>17, <2>2, <2>3 DEF Cancel
<1>18. CASE Restart
  BY <1>3, <1>5, <1>18 DEF Restart, Fault, alertVars
<1>19. ASSUME task' = task, events' = events, faults' = faults, enablings' = enablings,
              enabled' \subseteq enabled
       PROVE  Kept(a)
  BY <1>1, <1>4, <1>5, <1>19, OthersRecord
<1>20. ASSUME NEW b \in Alert, CreateAlert(b) \/ EnableAlert(b)
       PROVE  Kept(a) \/ Credited(a)
  <2>1. /\ task' = task /\ events' = events /\ faults' = faults
        /\ enabled' = enabled \cup {b} /\ enablings' = [enablings EXCEPT ![b] = @ + 1]
    BY <1>20 DEF CreateAlert, EnableAlert
  <2>2. CASE a = b
    <3>1. enablings'[a] = enablings[a] + 1
      BY <1>1, <2>1, <2>2 DEF Bookkeeping
    <3> QED
      BY <1>5, <2>1, <3>1 DEF Credited
  <2>3. CASE a # b
    <3>1. a \in enabled' => a \in enabled
      BY <2>1, <2>3
    <3>2. Armed(a)' => Armed(a)
      BY <1>1, <2>1, <3>1, OthersRecord, ArmedStays
    <3>3. Triggered(a)' = Triggered(a) /\ enablings'[a] = enablings[a]
      BY <1>1, <1>5, <2>1, <2>3 DEF Bookkeeping
    <3> QED
      BY <2>1, <3>2, <3>3 DEF Kept
  <2> QED
    BY <2>2, <2>3
<1>21. CASE Tools
  BY <1>19, <1>20, <1>21 DEF Tools, DisableAlert, Subscribe, SendLine, Disconnect, alertVars
<1>22. CASE Registration \/ UNCHANGED vars
  BY <1>19, <1>22 DEF Registration, vars, alertVars
<1> QED
  BY <1>7, <1>8, <1>9, <1>10, <1>12, <1>13, <1>14, <1>15, <1>16, <1>17, <1>18, <1>21, <1>22
  DEF Next, Step

\* No step overdraws an account.
LEMMA AccountsNext ==
    ASSUME Control, IInv, Bookkeeping, Accounts, [Next]_vars
    PROVE  Accounts'
<1> SUFFICES ASSUME NEW a \in OneShot
             PROVE  Triggered(a)' + Shots(a)' <= enablings'[a] + faults'
  BY DEF Accounts
<1>1. a \in Alert /\ Control' /\ Bookkeeping'
  BY ControlNext, BookkeepingNext, PublicationAssumption
<1>2. /\ Triggered(a) \in Nat /\ Triggered(a)' \in Nat
      /\ Shots(a) \in {0, 1} /\ Shots(a)' \in {0, 1}
      /\ (Armed(a) <=> Shots(a) = 1) /\ (Armed(a)' <=> Shots(a)' = 1)
  <2>1. Triggered(a)' \in Nat
    BY <1>1, TriggersCountNext
  <2> QED
    BY <1>1, <2>1, TriggersCount DEF Shots
<1>3. enablings[a] \in Nat /\ enablings'[a] \in Nat /\ faults \in Nat /\ faults' \in Nat
  BY <1>1, PublicationAssumption DEF Bookkeeping
<1>4. Triggered(a) + Shots(a) <= enablings[a] + faults
  BY DEF Accounts
<1>5. CASE Charged(a)
  BY <1>2, <1>3, <1>4, <1>5 DEF Charged
<1>6. CASE Kept(a)
  BY <1>2, <1>3, <1>4, <1>6 DEF Kept
<1>7. CASE Credited(a)
  BY <1>2, <1>3, <1>4, <1>7 DEF Credited
<1> QED
  BY <1>5, <1>6, <1>7, AccountsMove

\* A one-shot alert triggers at most once for each time it was enabled, however many
\* tasks publish at once: the lock is kept from the fresh read to the record, and only a
\* fault can part the trigger from it.
THEOREM OneShotsShootOnce == Spec => []OneTriggerPerEnabling
<1>1. Init => Accounts
  <2> SUFFICES ASSUME Init, NEW a \in OneShot
               PROVE  Triggered(a) + Shots(a) <= enablings[a] + faults
    BY DEF Accounts
  <2>1. a \in Alert /\ enablings[a] = 0 /\ faults = 0 /\ enabled = {}
        /\ \A q \in Task : task[q] = <<>>
    BY PublicationAssumption DEF Init
  <2>2. \A q \in Task : Len(task[q]) = 0
    BY <2>1
  <2>3. ~Armed(a)
    BY <2>1, <2>2 DEF Armed, Unsaved
  <2>4. Id = {}
    BY DEF Init, Id
  <2>5. Triggered(a) = 0
    BY <2>4, FS_EmptySet DEF Triggered
  <2> QED
    BY <2>1, <2>3, <2>5 DEF Shots
<1>2. Control /\ IInv /\ Bookkeeping /\ Accounts /\ [Next]_vars => Accounts'
  BY AccountsNext
<1>3. Control /\ Bookkeeping /\ Accounts => OneTriggerPerEnabling
  <2> SUFFICES ASSUME Control, Bookkeeping, Accounts, NEW a \in OneShot
               PROVE  Triggered(a) <= enablings[a] + faults
    BY DEF OneTriggerPerEnabling
  <2>1. a \in Alert
    BY PublicationAssumption
  <2>2. Triggered(a) \in Nat /\ Shots(a) \in {0, 1}
    BY <2>1, TriggersCount DEF Shots
  <2>3. enablings[a] \in Nat /\ faults \in Nat
    BY <2>1, PublicationAssumption DEF Bookkeeping
  <2>4. Triggered(a) + Shots(a) <= enablings[a] + faults
    BY DEF Accounts
  <2> QED
    BY <2>2, <2>3, <2>4
<1> QED
  BY <1>1, <1>2, <1>3, PublicationInvariance, DebtInvariance, PTL DEF Spec
=============================================================================
