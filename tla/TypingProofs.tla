---------------------------- MODULE TypingProofs ----------------------------
(***************************************************************************)
(* Typing announces what it should, for any sets of users and operations   *)
(* and any bounds: each start has its stop, and no stop overtakes the      *)
(* start it ends.                                                          *)
(***************************************************************************)
EXTENDS Typing, FiniteSetTheorems, TLAPS

USE TypingAssumption

-----------------------------------------------------------------------------
(* The invariant *)

\* The operations that have the first i commands in the pipe.
UpTo(i) == {o \in Worker : \E j \in 1..i : pipe[j] = o}

\* Those of them that are about to broadcast for u, and their number.
Publishing(u, pc, i) == {o \in UpTo(i) : op[o].user = u /\ op[o].pc = pc}
Count(u, pc, i) == Cardinality(Publishing(u, pc, i))

\* An operation has one command in the pipe at most, and is about a user.
PipeInv ==
  /\ \A i \in 1..Len(pipe) : op[pipe[i]].user \in User
  /\ \A i, j \in 1..Len(pipe) : pipe[i] = pipe[j] => i = j

\* A dead process has lost whatever it was about to say.
LostInv ==
  phase = "down" => \A o \in Worker : op[o].user \in lost \cup {None}

\* Starts that were or will be broadcast are the stops that were or will be, those
\* still to be heard of and the key; and however much of the pipe is handled, no
\* stop gets ahead of its start.
Flow(u) ==
  /\ starts[u] + Count(u, "pub_start", Len(pipe))
       = stops[u] + Count(u, "pub_stop", Len(pipe)) + expired[u]
           + (IF u \in typing THEN 1 ELSE 0)
  /\ \A i \in 0..Len(pipe) :
       stops[u] + Count(u, "pub_stop", i) <= starts[u] + Count(u, "pub_start", i)
  /\ announced[u] = "typing_start" => stops[u] < starts[u]

FlowInv == \A u \in Undisturbed : Flow(u)

Inv == TypeOK /\ PipeInv /\ LostInv /\ FlowInv

-----------------------------------------------------------------------------
(* Counting the broadcasts to come *)

\* There are finitely many of them.
LEMMA CountType ==
  ASSUME TypeOK, NEW i \in 0..Len(pipe), NEW u, NEW pc
  PROVE  IsFiniteSet(Publishing(u, pc, i)) /\ Count(u, pc, i) \in Nat
<1> DEFINE f == [j \in 1..i |-> pipe[j]]
<1>1. f \in Surjection(1..i, UpTo(i))
  <2>1. \A j \in 1..i : pipe[j] \in UpTo(i)
    BY DEF UpTo, TypeOK
  <2>2. f \in [1..i -> UpTo(i)]
    BY <2>1
  <2>3. \A o \in UpTo(i) : \E j \in 1..i : f[j] = o
    BY DEF UpTo
  <2> HIDE DEF f
  <2> QED BY <2>2, <2>3 DEF Surjection
<1>2. IsFiniteSet(1..i)
  BY FS_Interval
<1>3. IsFiniteSet(UpTo(i))
  BY <1>1, <1>2, FS_Surjection
<1> QED BY <1>3, FS_Subset, FS_CardinalityType DEF Publishing, Count

\* At the head of the pipe there are none.
LEMMA CountNone ==
  ASSUME NEW u, NEW pc
  PROVE  Count(u, pc, 0) = 0
<1>1. Publishing(u, pc, 0) = {}
  BY DEF Publishing, UpTo
<1> QED BY <1>1, FS_EmptySet DEF Count

\* The operation at the head is counted by one prefix and all longer ones.
LEMMA HeadFirst ==
  ASSUME TypeOK, PipeInv, pipe # << >>, NEW i \in 0..(Len(pipe) - 1)
  PROVE  /\ Head(pipe) \in UpTo(i + 1)
         /\ {o \in Worker : \E j \in 1..i : Tail(pipe)[j] = o} = UpTo(i + 1) \ {Head(pipe)}
<1> USE DEF TypeOK
<1>1. Head(pipe) = pipe[1] /\ 1 \in 1..(i + 1)
  OBVIOUS
<1>2. \A j \in 1..i : Tail(pipe)[j] = pipe[j + 1] /\ j + 1 \in 1..Len(pipe)
  OBVIOUS
<1>3. \A j \in 1..(i + 1) : j \in 1..Len(pipe)
  OBVIOUS
<1>4. ASSUME NEW o \in UpTo(i + 1), o # Head(pipe)
      PROVE  \E j \in 1..i : Tail(pipe)[j] = o
  <2>1. PICK k \in 1..(i + 1) : pipe[k] = o
    BY DEF UpTo
  <2>2. k # 1 /\ k - 1 \in 1..i
    BY <2>1, <1>1, <1>4
  <2>3. Tail(pipe)[k - 1] = o
    BY <2>1, <2>2, <1>2
  <2> QED BY <2>2, <2>3
<1>5. ASSUME NEW o \in Worker, NEW j \in 1..i, Tail(pipe)[j] = o
      PROVE  o \in UpTo(i + 1) /\ o # Head(pipe)
  <2>1. pipe[j + 1] = o /\ j + 1 \in 1..(i + 1)
    BY <1>2, <1>5
  <2>2. pipe[j + 1] # pipe[1]
    BY <1>2, 1 \in 1..Len(pipe), j + 1 # 1 DEF PipeInv
  <2> QED BY <2>1, <2>2, <1>1 DEF UpTo
<1>6. Head(pipe) \in UpTo(i + 1)
  BY <1>1 DEF UpTo
<1>7. UpTo(i + 1) \subseteq Worker
  BY DEF UpTo
<1> HIDE DEF UpTo
<1> QED BY <1>4, <1>5, <1>6, <1>7

\* A call that starts puts its command behind all others.
LEMMA IssueCounts ==
  ASSUME TypeOK, PipeInv, NEW o \in Worker, NEW u \in User, NEW p, Issue(o, p, u),
         NEW v \in User, NEW pc, NEW n, n = Len(pipe)
  PROVE  /\ Len(pipe') = n + 1
         /\ \A i \in 0..n : Count(v, pc, i)' = Count(v, pc, i)
         /\ Count(v, pc, n + 1)'
              = Count(v, pc, n) + (IF v = u /\ pc = p THEN 1 ELSE 0)
<1> USE DEF TypeOK, Issue
<1>1. /\ n \in Nat /\ Len(pipe') = n + 1
      /\ \A j \in 1..n : pipe'[j] = pipe[j]
      /\ pipe'[n + 1] = o
  OBVIOUS
<1>2. \A j \in 1..n : pipe[j] \in Worker \ {o}
  BY DEF PipeInv, Idle
<1>3. \A i \in 0..n : UpTo(i)' = UpTo(i) /\ UpTo(i) \subseteq Worker \ {o}
  BY <1>1, <1>2 DEF UpTo
<1>4. UpTo(n + 1)' = UpTo(n) \cup {o}
  <2>1. ASSUME NEW q \in Worker
        PROVE  (\E j \in 1..(n + 1) : pipe'[j] = q)
                 <=> (\E j \in 1..n : pipe[j] = q) \/ q = o
    BY <1>1
  <2> QED BY <2>1 DEF UpTo
<1>5. \A q \in Worker \ {o} : op'[q] = op[q]
  OBVIOUS
<1>6. \A i \in 0..n : Publishing(v, pc, i)' = Publishing(v, pc, i)
  BY <1>3, <1>5 DEF Publishing
<1>7. op'[o].user = u /\ op'[o].pc = p
  OBVIOUS
<1>8. Publishing(v, pc, n + 1)' = IF v = u /\ pc = p
                                    THEN Publishing(v, pc, n) \cup {o}
                                    ELSE Publishing(v, pc, n)
  BY <1>3, <1>4, <1>5, <1>7, n \in 0..n DEF Publishing
<1>9. o \notin Publishing(v, pc, n)
  BY <1>3, n \in 0..n DEF Publishing
<1>10. IsFiniteSet(Publishing(v, pc, n)) /\ Count(v, pc, n) \in Nat
  BY CountType, n \in 0..n
<1>11. Count(v, pc, n + 1)' = Count(v, pc, n) + (IF v = u /\ pc = p THEN 1 ELSE 0)
  <2>1. Cardinality(Publishing(v, pc, n) \cup {o}) = Cardinality(Publishing(v, pc, n)) + 1
    BY ONLY <1>9, <1>10, FS_AddElement
  <2> QED BY <2>1, <1>8, <1>10 DEF Count
<1> QED BY <1>1, <1>6, <1>11 DEF Count

\* An operation that is answered and goes on leaves the head for the end.
LEMMA AwaitCounts ==
  ASSUME TypeOK, PipeInv, pipe # << >>, NEW o \in Worker, Head(pipe) = o,
         NEW p, Await(o, p), NEW v \in User, NEW pc, NEW n, n = Len(pipe), op[o].pc # pc
  PROVE  /\ Len(pipe') = n
         /\ \A i \in 0..(n - 1) : Count(v, pc, i)' = Count(v, pc, i + 1)
         /\ Count(v, pc, n)'
              = Count(v, pc, n)
                  + (IF v = op[o].user /\ pc = p THEN 1 ELSE 0)
<1> USE DEF TypeOK, Await
<1>1. /\ n \in Nat \ {0} /\ Len(pipe') = n
      /\ \A j \in 1..(n - 1) : pipe'[j] = Tail(pipe)[j]
      /\ pipe'[n] = o
  OBVIOUS
<1>2. ASSUME NEW i \in 0..(n - 1)
      PROVE  UpTo(i)' = UpTo(i + 1) \ {o} /\ o \in UpTo(i + 1)
  <2>1. \A j \in 1..i : pipe'[j] = Tail(pipe)[j]
    BY <1>1
  <2>2. UpTo(i)' = {q \in Worker : \E j \in 1..i : Tail(pipe)[j] = q}
    <3> HIDE DEF TypeOK, Await
    <3> QED BY <2>1 DEF UpTo
  <2> QED BY <2>2, HeadFirst
<1>3. UpTo(n)' = UpTo(n)
  <2>1. UpTo(n - 1)' = UpTo(n) \ {o} /\ o \in UpTo(n)
    BY <1>1, <1>2, n - 1 \in 0..(n - 1), (n - 1) + 1 = n
  <2>2. UpTo(n)' = UpTo(n - 1)' \cup {o}
    <3>1. ASSUME NEW q \in Worker
          PROVE  (\E j \in 1..n : pipe'[j] = q)
                   <=> (\E j \in 1..(n - 1) : pipe'[j] = q) \/ q = o
      <4>1. \A j : j \in 1..n <=> j \in 1..(n - 1) \/ j = n
        BY <1>1
      <4> HIDE DEF TypeOK, Await
      <4> QED BY <4>1, <1>1
    <3> QED BY <3>1 DEF UpTo
  <2> QED BY <2>1, <2>2
<1>4. /\ \A q \in Worker \ {o} : op'[q] = op[q]
      /\ op'[o].user = op[o].user /\ op'[o].pc = p
  OBVIOUS
<1>5. \A i \in 0..n : UpTo(i) \subseteq Worker
  BY DEF UpTo
<1>6. ASSUME NEW i \in 0..(n - 1)
      PROVE  Publishing(v, pc, i)' = Publishing(v, pc, i + 1)
  BY <1>1, <1>2, <1>4, <1>5, i + 1 \in 0..n DEF Publishing
<1>7. Publishing(v, pc, n)' = IF v = op[o].user /\ pc = p
                                THEN Publishing(v, pc, n) \cup {o}
                                ELSE Publishing(v, pc, n)
  <2>1. o \in UpTo(n)
    BY <1>1, <1>2, n - 1 \in 0..(n - 1), (n - 1) + 1 = n
  <2> QED BY <2>1, <1>1, <1>3, <1>4, <1>5, n \in 0..n DEF Publishing
<1>8. o \notin Publishing(v, pc, n)
  BY DEF Publishing
<1>9. IsFiniteSet(Publishing(v, pc, n)) /\ Count(v, pc, n) \in Nat
  BY <1>1, CountType, n \in 0..n
<1>10. Count(v, pc, n)' = Count(v, pc, n)
                           + (IF v = op[o].user /\ pc = p THEN 1 ELSE 0)
  <2>1. Cardinality(Publishing(v, pc, n) \cup {o}) = Cardinality(Publishing(v, pc, n)) + 1
    BY ONLY <1>8, <1>9, FS_AddElement
  <2> QED BY <2>1, <1>7, <1>9 DEF Count
<1> QED BY <1>1, <1>6, <1>10 DEF Count

\* An operation that is answered and returns leaves the pipe.
LEMMA ReturnCounts ==
  ASSUME TypeOK, PipeInv, pipe # << >>, NEW o \in Worker, Head(pipe) = o, Return(o),
         NEW v \in User
  PROVE  /\ Len(pipe) \in Nat \ {0} /\ Len(pipe') = Len(pipe) - 1
         /\ \A i \in 0..(Len(pipe) - 1) : \A pc :
              Count(v, pc, i)' = Count(v, pc, i + 1)
                - (IF v = op[o].user /\ pc = op[o].pc THEN 1 ELSE 0)
<1> USE DEF TypeOK, Return
<1>0. PICK n : n = Len(pipe)
  OBVIOUS
<1>1. n \in Nat \ {0} /\ Len(pipe') = n - 1 /\ pipe' = Tail(pipe)
  BY <1>0
<1>2. ASSUME NEW i \in 0..(n - 1)
      PROVE  UpTo(i)' = UpTo(i + 1) \ {o} /\ o \in UpTo(i + 1)
  <2>1. UpTo(i)' = {q \in Worker : \E j \in 1..i : Tail(pipe)[j] = q}
    BY <1>1 DEF UpTo
  <2> QED BY <1>0, <2>1, HeadFirst
<1>3. \A q \in Worker \ {o} : op'[q] = op[q]
  OBVIOUS
<1>4. \A i \in 0..n : UpTo(i) \subseteq Worker
  BY DEF UpTo
<1>5. ASSUME NEW i \in 0..(n - 1), NEW pc
      PROVE  Count(v, pc, i)' = Count(v, pc, i + 1)
               - (IF v = op[o].user /\ pc = op[o].pc THEN 1 ELSE 0)
  <2>1. Publishing(v, pc, i)' = Publishing(v, pc, i + 1) \ {o}
    BY <1>1, <1>2, <1>3, <1>4, i + 1 \in 0..n DEF Publishing
  <2>2. o \in Publishing(v, pc, i + 1) <=> v = op[o].user /\ pc = op[o].pc
    BY <1>2 DEF Publishing
  <2>3. IsFiniteSet(Publishing(v, pc, i + 1)) /\ Count(v, pc, i + 1) \in Nat
    BY <1>0, <1>1, CountType, i + 1 \in 0..n
  <2>4. Cardinality(Publishing(v, pc, i + 1) \ {o})
          = IF o \in Publishing(v, pc, i + 1) THEN Cardinality(Publishing(v, pc, i + 1)) - 1
                                              ELSE Cardinality(Publishing(v, pc, i + 1))
    BY ONLY <2>3, FS_RemoveElement
  <2> QED BY <2>1, <2>2, <2>3, <2>4 DEF Count
<1> QED BY <1>0, <1>1, <1>5

-----------------------------------------------------------------------------
(* Types and the pipe *)

\* The invariant holds at first.
LEMMA InitInv == Init => Inv
<1> SUFFICES ASSUME Init PROVE Inv
  OBVIOUS
<1>1. TypeOK
  BY DEF Init, TypeOK, Idle, Pc
<1>2. Len(pipe) = 0 /\ PipeInv
  BY DEF Init, PipeInv
<1>3. LostInv
  BY DEF Init, LostInv
<1>4. ASSUME NEW u \in User
      PROVE  Flow(u)
  <2>1. /\ starts[u] = 0 /\ stops[u] = 0 /\ expired[u] = 0 /\ u \notin typing
        /\ announced[u] = "none"
    BY DEF Init
  <2>2. \A i \in 0..Len(pipe) : i = 0
    BY <1>2
  <2>3. \A i \in 0..Len(pipe) : \A pc : Count(u, pc, i) = 0
    BY <2>2, CountNone
  <2>4. Count(u, "pub_start", Len(pipe)) = 0 /\ Count(u, "pub_stop", Len(pipe)) = 0
    BY <1>2, CountNone
  <2> QED BY <2>1, <2>3, <2>4 DEF Flow
<1>5. FlowInv
  BY <1>4 DEF FlowInv, Undisturbed, Parsable
<1> QED BY <1>1, <1>2, <1>3, <1>5 DEF Inv

\* A call that starts keeps the types of its call and of the pipe.
LEMMA IssueKeeps ==
  ASSUME TypeOK, PipeInv, NEW o \in Worker, NEW u \in User, NEW p \in Pc, Issue(o, p, u)
  PROVE  op' \in [Worker -> [pc: Pc, user: User \cup {None}]]
         /\ pipe' \in Seq(Worker) /\ PipeInv'
<1> USE DEF TypeOK, Issue
<1>1. op' \in [Worker -> [pc: Pc, user: User \cup {None}]] /\ pipe' \in Seq(Worker)
  OBVIOUS
<1>2. \A i \in 1..Len(pipe) : pipe[i] \in Worker \ {o}
  BY DEF PipeInv, Idle
<1>3. /\ Len(pipe') = Len(pipe) + 1 /\ pipe'[Len(pipe) + 1] = o
      /\ \A i \in 1..Len(pipe) : pipe'[i] = pipe[i]
  OBVIOUS
<1>4. \A i \in 1..Len(pipe') : i \in 1..Len(pipe) \/ i = Len(pipe) + 1
  BY <1>3
<1>5. op'[o].user = u /\ \A q \in Worker \ {o} : op'[q] = op[q]
  OBVIOUS
<1>6. \A i \in 1..Len(pipe') : op'[pipe'[i]].user \in User
  BY <1>2, <1>3, <1>4, <1>5 DEF PipeInv
<1>7. \A i, j \in 1..Len(pipe') : pipe'[i] = pipe'[j] => i = j
  BY <1>2, <1>3, <1>4 DEF PipeInv
<1> QED BY <1>1, <1>6, <1>7 DEF PipeInv

\* So does one that goes on.
LEMMA AwaitKeeps ==
  ASSUME TypeOK, PipeInv, NEW o \in Worker, pipe # << >>, Head(pipe) = o,
         NEW p \in Pc, Await(o, p)
  PROVE  op' \in [Worker -> [pc: Pc, user: User \cup {None}]]
         /\ pipe' \in Seq(Worker) /\ PipeInv'
<1> USE DEF TypeOK, Await
<1>1. op' \in [Worker -> [pc: Pc, user: User \cup {None}]] /\ pipe' \in Seq(Worker)
  <2>1. [op[o] EXCEPT !.pc = p] \in [pc: Pc, user: User \cup {None}]
    OBVIOUS
  <2>2. op' = [op EXCEPT ![o] = [op[o] EXCEPT !.pc = p]]
    OBVIOUS
  <2>3. op' \in [Worker -> [pc: Pc, user: User \cup {None}]]
    BY <2>1, <2>2
  <2> QED BY <2>3
<1>2. /\ Len(pipe) \in Nat \ {0} /\ pipe[1] = o
      /\ Len(pipe') = Len(pipe) /\ pipe'[Len(pipe)] = o
      /\ \A i \in 1..(Len(pipe) - 1) : pipe'[i] = pipe[i + 1] /\ pipe[i + 1] \in Worker
  OBVIOUS
<1>3. \A i \in 1..(Len(pipe) - 1) : pipe'[i] # o
  <2>1. \A i \in 1..(Len(pipe) - 1) : i + 1 # 1 /\ i + 1 \in 1..Len(pipe) /\ 1 \in 1..Len(pipe)
    BY <1>2
  <2> QED BY <2>1, <1>2 DEF PipeInv
<1>4. \A i \in 1..Len(pipe') : i \in 1..(Len(pipe) - 1) \/ i = Len(pipe)
  BY <1>2
<1>5. op'[o].user = op[o].user /\ \A q \in Worker \ {o} : op'[q] = op[q]
  OBVIOUS
<1>6. \A i \in 1..(Len(pipe) - 1) : op[pipe[i + 1]].user \in User
  <2> HIDE DEF TypeOK, Await
  <2> QED BY <1>2, \A i \in 1..(Len(pipe) - 1) : i + 1 \in 1..Len(pipe) DEF PipeInv
<1>7. op[o].user \in User
  BY <1>2, 1 \in 1..Len(pipe) DEF PipeInv
<1>8. \A i, j \in 1..(Len(pipe) - 1) : pipe[i + 1] = pipe[j + 1] => i = j
  BY <1>2, \A i \in 1..(Len(pipe) - 1) : i + 1 \in 1..Len(pipe) DEF PipeInv
<1>9. \A i \in 1..Len(pipe') : op'[pipe'[i]].user \in User
  BY ONLY <1>2, <1>3, <1>4, <1>5, <1>6, <1>7
<1>10. \A i, j \in 1..Len(pipe') : pipe'[i] = pipe'[j] => i = j
  BY ONLY <1>2, <1>3, <1>4, <1>8
<1> QED BY <1>1, <1>9, <1>10 DEF PipeInv

\* And one that returns.
LEMMA ReturnKeeps ==
  ASSUME TypeOK, PipeInv, NEW o \in Worker, pipe # << >>, Head(pipe) = o, Return(o)
  PROVE  op' \in [Worker -> [pc: Pc, user: User \cup {None}]]
         /\ pipe' \in Seq(Worker) /\ PipeInv' /\ op[o].user \in User
<1> USE DEF TypeOK, Return
<1>1. op' \in [Worker -> [pc: Pc, user: User \cup {None}]] /\ pipe' \in Seq(Worker)
  BY DEF Idle, Pc
<1>2. /\ Len(pipe) \in Nat \ {0} /\ pipe[1] = o /\ Len(pipe') = Len(pipe) - 1
      /\ \A i \in 1..Len(pipe') : /\ pipe'[i] = pipe[i + 1] /\ pipe[i + 1] \in Worker
                                  /\ i + 1 \in 1..Len(pipe)
  OBVIOUS
<1>3. \A i \in 1..Len(pipe') : pipe'[i] # o
  BY <1>2, 1 \in 1..Len(pipe) DEF PipeInv
<1>4. \A q \in Worker \ {o} : op'[q] = op[q]
  OBVIOUS
<1>5. \A i \in 1..Len(pipe') : op'[pipe'[i]].user \in User
  BY <1>2, <1>3, <1>4 DEF PipeInv
<1>6. \A i, j \in 1..Len(pipe') : pipe'[i] = pipe'[j] => i = j
  BY <1>2 DEF PipeInv
<1>7. op[o].user \in User
  BY <1>2, 1 \in 1..Len(pipe) DEF PipeInv
<1> QED BY <1>1, <1>5, <1>6, <1>7 DEF PipeInv

-----------------------------------------------------------------------------
(* Every step keeps the invariant *)

\* The account of a user after a step, by the length of the pipe then.
LEMMA FlowNext ==
  ASSUME NEW v, NEW m, Len(pipe') = m,
         starts'[v] + Count(v, "pub_start", m)'
           = stops'[v] + Count(v, "pub_stop", m)' + expired'[v]
               + (IF v \in typing' THEN 1 ELSE 0),
         \A i \in 0..m : stops'[v] + Count(v, "pub_stop", i)'
                           <= starts'[v] + Count(v, "pub_start", i)',
         announced'[v] = "typing_start" => stops'[v] < starts'[v]
  PROVE  Flow(v)'
BY DEF Flow, Count, Publishing, UpTo

\* What is known of the account of v when there are n commands in the pipe.
Account(v, n) ==
  /\ v \in User /\ n \in Nat /\ n \in 0..n
  /\ starts[v] \in Nat /\ stops[v] \in Nat /\ expired[v] \in Nat
  /\ \A i \in 0..n : /\ Count(v, "pub_start", i) \in Nat
                     /\ Count(v, "pub_stop", i) \in Nat
                     /\ stops[v] + Count(v, "pub_stop", i)
                          <= starts[v] + Count(v, "pub_start", i)
  /\ Count(v, "pub_start", n) \in Nat /\ Count(v, "pub_stop", n) \in Nat
  /\ starts[v] + Count(v, "pub_start", n)
       = stops[v] + Count(v, "pub_stop", n) + expired[v]
           + (IF v \in typing THEN 1 ELSE 0)
  /\ announced[v] = "typing_start" => stops[v] < starts[v]

\* An undisturbed user has such an account.
LEMMA FlowFacts ==
  ASSUME Inv, NEW v \in Undisturbed, NEW n, n = Len(pipe)
  PROVE  Account(v, n)
<1>1. /\ v \in User /\ n \in Nat /\ n \in 0..n /\ starts[v] \in Nat /\ stops[v] \in Nat
      /\ expired[v] \in Nat
  BY DEF Inv, TypeOK, Undisturbed, Parsable
<1>2. Flow(v)
  BY DEF Inv, FlowInv
<1>3. \A i \in 0..n : Count(v, "pub_start", i) \in Nat /\ Count(v, "pub_stop", i) \in Nat
  BY CountType DEF Inv
<1> QED BY <1>1, <1>2, <1>3 DEF Flow, Account

\* Its counters are numbers.
LEMMA FlowCounts ==
  ASSUME Inv, NEW v \in Undisturbed
  PROVE  v \in User /\ starts[v] \in Nat /\ stops[v] \in Nat /\ expired[v] \in Nat
BY DEF Inv, TypeOK, Undisturbed, Parsable

\* A call starts; one that is to broadcast a typing_stop accounts for a message.
LEMMA FlowIssue ==
  ASSUME Inv, NEW o \in Worker, NEW u \in User, NEW p \in Pc, Issue(o, p, u),
         p # "pub_start", NEW v \in Undisturbed,
         UNCHANGED <<typing, starts, stops, announced>>,
         IF v = u /\ p = "pub_stop" THEN expired[v] > 0 /\ expired'[v] = expired[v] - 1
                                    ELSE expired'[v] = expired[v]
  PROVE  Flow(v)'
<1>1. PICK n : n = Len(pipe)
  OBVIOUS
<1>2. /\ Len(pipe') = n + 1
      /\ \A i \in 0..n : /\ Count(v, "pub_start", i)' = Count(v, "pub_start", i)
                         /\ Count(v, "pub_stop", i)' = Count(v, "pub_stop", i)
      /\ Count(v, "pub_start", n + 1)' = Count(v, "pub_start", n)
      /\ Count(v, "pub_stop", n + 1)'
           = Count(v, "pub_stop", n) + (IF v = u /\ p = "pub_stop" THEN 1 ELSE 0)
  BY <1>1, IssueCounts, FlowFacts DEF Inv, Account
<1>3. Account(v, n)
  BY <1>1, FlowFacts
<1> DEFINE b == IF v = u /\ p = "pub_stop" THEN 1 ELSE 0
           key == IF v \in typing THEN 1 ELSE 0
<1>4. /\ starts[v] \in Nat /\ stops[v] \in Nat /\ expired[v] \in Nat
      /\ b \in Nat /\ key \in Nat /\ b <= expired[v] /\ expired'[v] = expired[v] - b
      /\ Count(v, "pub_start", n) \in Nat /\ Count(v, "pub_stop", n) \in Nat
      /\ Count(v, "pub_start", n + 1)' = Count(v, "pub_start", n)
      /\ Count(v, "pub_stop", n + 1)' = Count(v, "pub_stop", n) + b
      /\ starts[v] + Count(v, "pub_start", n)
           = stops[v] + Count(v, "pub_stop", n) + expired[v] + key
  BY <1>2, <1>3 DEF Account
<1> HIDE DEF b, key
<1>5. starts[v] + Count(v, "pub_start", n + 1)'
        = stops[v] + Count(v, "pub_stop", n + 1)' + expired'[v] + key
  BY ONLY <1>4
<1>6. stops[v] + Count(v, "pub_stop", n + 1)' <= starts[v] + Count(v, "pub_start", n + 1)'
  BY ONLY <1>4
<1>7. \A i \in 0..(n + 1) : i \in 0..n \/ i = n + 1
  BY <1>3 DEF Account
<1>8. \A i \in 0..(n + 1) :
        stops[v] + Count(v, "pub_stop", i)' <= starts[v] + Count(v, "pub_start", i)'
  BY <1>2, <1>3, <1>6, <1>7 DEF Account
<1> QED BY <1>2, <1>3, <1>5, <1>8, FlowNext DEF key, Account

\* An answer after which the operation goes on; one that is to broadcast accounts
\* for the key that came or went.
LEMMA FlowAwait ==
  ASSUME Inv, NEW o \in Worker, pipe # << >>, Head(pipe) = o,
         op[o].pc \notin {"pub_start", "pub_stop"}, NEW p \in Pc, Await(o, p),
         NEW v \in Undisturbed,
         UNCHANGED <<expired, starts, stops, announced>>,
         IF v = op[o].user /\ p \in {"pub_start", "pub_stop"}
           THEN (v \in typing <=> p = "pub_stop") /\ (v \in typing' <=> p = "pub_start")
           ELSE v \in typing' <=> v \in typing
  PROVE  Flow(v)'
<1>1. PICK n : n = Len(pipe)
  OBVIOUS
<1>2. /\ Len(pipe') = n
      /\ \A i \in 0..(n - 1) :
           /\ Count(v, "pub_start", i)' = Count(v, "pub_start", i + 1)
           /\ Count(v, "pub_stop", i)' = Count(v, "pub_stop", i + 1)
      /\ Count(v, "pub_start", n)' = Count(v, "pub_start", n)
           + (IF v = op[o].user /\ p = "pub_start" THEN 1 ELSE 0)
      /\ Count(v, "pub_stop", n)' = Count(v, "pub_stop", n)
           + (IF v = op[o].user /\ p = "pub_stop" THEN 1 ELSE 0)
  <2>1. TypeOK /\ PipeInv /\ v \in User
    BY FlowFacts DEF Inv, Account
  <2> SUFFICES ASSUME NEW pc \in {"pub_start", "pub_stop"}
      PROVE  /\ Len(pipe') = n
             /\ \A i \in 0..(n - 1) : Count(v, pc, i)' = Count(v, pc, i + 1)
             /\ Count(v, pc, n)' = Count(v, pc, n)
                  + (IF v = op[o].user /\ pc = p THEN 1 ELSE 0)
    OBVIOUS
  <2>2. op[o].pc # pc
    OBVIOUS
  <2>3. Count(v, pc, n)' = Count(v, pc, n) + (IF v = op[o].user /\ pc = p THEN 1 ELSE 0)
    BY <1>1, <2>1, <2>2, AwaitCounts
  <2>4. Len(pipe') = n
    BY <1>1, <2>1, <2>2, <2>3, AwaitCounts
  <2>5. \A i \in 0..(n - 1) : Count(v, pc, i)' = Count(v, pc, i + 1)
    BY <1>1, <2>1, <2>2, <2>3, AwaitCounts
  <2> QED BY <2>3, <2>4, <2>5
<1>3. Account(v, n)
  BY <1>1, FlowFacts
<1> DEFINE a == IF v = op[o].user /\ p = "pub_start" THEN 1 ELSE 0
           b == IF v = op[o].user /\ p = "pub_stop" THEN 1 ELSE 0
           key == IF v \in typing THEN 1 ELSE 0
           key1 == IF v \in typing' THEN 1 ELSE 0
<1>4. /\ starts[v] \in Nat /\ stops[v] \in Nat /\ expired[v] \in Nat
      /\ a \in Nat /\ b \in Nat /\ key \in Nat /\ key1 \in Nat /\ key1 = key + a - b
      /\ Count(v, "pub_start", n) \in Nat /\ Count(v, "pub_stop", n) \in Nat
      /\ Count(v, "pub_start", n)' = Count(v, "pub_start", n) + a
      /\ Count(v, "pub_stop", n)' = Count(v, "pub_stop", n) + b
      /\ starts[v] + Count(v, "pub_start", n)
           = stops[v] + Count(v, "pub_stop", n) + expired[v] + key
  BY <1>2, <1>3 DEF Account
<1> HIDE DEF a, b, key, key1
<1>5. starts[v] + Count(v, "pub_start", n)'
        = stops[v] + Count(v, "pub_stop", n)' + expired[v] + key1
  <2>1. key1 + b = key + a
    BY ONLY <1>4
  <2>2. starts[v] + (Count(v, "pub_start", n) + a)
          = stops[v] + (Count(v, "pub_stop", n) + b) + expired[v] + key1
    BY ONLY <1>4, <2>1
  <2> QED BY ONLY <1>4, <2>2
<1>6. stops[v] + Count(v, "pub_stop", n)' <= starts[v] + Count(v, "pub_start", n)'
  BY ONLY <1>4, <1>5
<1>7. \A i \in 0..n : (i \in 0..(n - 1) /\ i + 1 \in 0..n) \/ i = n
  <2>1. n \in Nat
    BY <1>3 DEF Account
  <2> QED BY ONLY <2>1
<1>8. \A i \in 0..n :
        stops[v] + Count(v, "pub_stop", i)' <= starts[v] + Count(v, "pub_start", i)'
  BY <1>2, <1>3, <1>6, <1>7 DEF Account
<1> QED BY <1>2, <1>3, <1>5, <1>8, FlowNext DEF key1, Account

\* An answer after which the operation returns, with its broadcast.
LEMMA FlowReturn ==
  ASSUME Inv, NEW o \in Worker, pipe # << >>, Head(pipe) = o, Return(o),
         NEW v \in Undisturbed,
         expired'[v] = expired[v], v \in typing' <=> v \in typing,
         starts'[v] = starts[v] + (IF v = op[o].user /\ op[o].pc = "pub_start" THEN 1 ELSE 0),
         stops'[v] = stops[v] + (IF v = op[o].user /\ op[o].pc = "pub_stop" THEN 1 ELSE 0),
         announced'[v] = "typing_start"
           => \/ v = op[o].user /\ op[o].pc = "pub_start"
              \/ announced[v] = "typing_start" /\ stops'[v] = stops[v]
  PROVE  Flow(v)'
<1>1. PICK n : n = Len(pipe)
  OBVIOUS
<1> DEFINE a == IF v = op[o].user /\ op[o].pc = "pub_start" THEN 1 ELSE 0
           b == IF v = op[o].user /\ op[o].pc = "pub_stop" THEN 1 ELSE 0
<1>2. /\ n \in Nat \ {0} /\ Len(pipe') = n - 1
      /\ \A i \in 0..(n - 1) :
           /\ Count(v, "pub_start", i)' = Count(v, "pub_start", i + 1) - a
           /\ Count(v, "pub_stop", i)' = Count(v, "pub_stop", i + 1) - b
  <2>1. TypeOK /\ PipeInv /\ v \in User
    BY FlowFacts DEF Inv, Account
  <2> QED BY <1>1, <2>1, ReturnCounts
<1>3. Account(v, n)
  BY <1>1, FlowFacts
<1>4. stops[v] <= starts[v]
  BY <1>2, <1>3, 0 \in 0..n, CountNone DEF Account
<1>5. /\ a \in Nat /\ b \in Nat /\ starts'[v] = starts[v] + a /\ stops'[v] = stops[v] + b
      /\ v = op[o].user /\ op[o].pc = "pub_start" => a = 1 /\ b = 0
  OBVIOUS
<1> HIDE DEF a, b
<1>6. n - 1 \in 0..(n - 1) /\ (n - 1) + 1 = n /\ n \in 0..n
  BY <1>2
<1>7. Count(v, "pub_start", n - 1)' = Count(v, "pub_start", n) - a
      /\ Count(v, "pub_stop", n - 1)' = Count(v, "pub_stop", n) - b
  BY <1>2, <1>6
<1>8. starts'[v] + Count(v, "pub_start", n - 1)'
        = stops'[v] + Count(v, "pub_stop", n - 1)' + expired'[v]
            + (IF v \in typing' THEN 1 ELSE 0)
  <2> DEFINE key == IF v \in typing THEN 1 ELSE 0
  <2>1. /\ starts[v] \in Nat /\ stops[v] \in Nat /\ expired[v] \in Nat /\ key \in Nat
        /\ Count(v, "pub_start", n) \in Nat /\ Count(v, "pub_stop", n) \in Nat
        /\ starts[v] + Count(v, "pub_start", n)
             = stops[v] + Count(v, "pub_stop", n) + expired[v] + key
    BY <1>3 DEF Account
  <2>2. expired'[v] = expired[v] /\ (IF v \in typing' THEN 1 ELSE 0) = key
    OBVIOUS
  <2> HIDE DEF key
  <2>3. (starts[v] + a) + (Count(v, "pub_start", n) - a)
          = (stops[v] + b) + (Count(v, "pub_stop", n) - b) + expired[v] + key
    BY ONLY <1>5, <2>1
  <2> QED BY <1>5, <1>7, <2>2, <2>3
<1>9. \A i \in 0..(n - 1) :
        stops'[v] + Count(v, "pub_stop", i)' <= starts'[v] + Count(v, "pub_start", i)'
  <2> SUFFICES ASSUME NEW i \in 0..(n - 1)
               PROVE  stops'[v] + Count(v, "pub_stop", i)'
                        <= starts'[v] + Count(v, "pub_start", i)'
    OBVIOUS
  <2>1. i + 1 \in 0..n
    BY <1>2
  <2>2. /\ Count(v, "pub_start", i + 1) \in Nat /\ Count(v, "pub_stop", i + 1) \in Nat
        /\ stops[v] + Count(v, "pub_stop", i + 1) <= starts[v] + Count(v, "pub_start", i + 1)
        /\ starts[v] \in Nat /\ stops[v] \in Nat
    BY <1>3, <2>1 DEF Account
  <2>3. /\ Count(v, "pub_start", i)' = Count(v, "pub_start", i + 1) - a
        /\ Count(v, "pub_stop", i)' = Count(v, "pub_stop", i + 1) - b
    BY <1>2
  <2>4. (stops[v] + b) + (Count(v, "pub_stop", i + 1) - b)
          <= (starts[v] + a) + (Count(v, "pub_start", i + 1) - a)
    BY ONLY <1>5, <2>2
  <2> QED BY <1>5, <2>3, <2>4
<1>10. announced'[v] = "typing_start" => stops'[v] < starts'[v]
  <2>1. starts[v] \in Nat /\ stops[v] \in Nat
        /\ (announced[v] = "typing_start" => stops[v] < starts[v])
    BY <1>3 DEF Account
  <2>2. a = 1 /\ b = 0 => stops'[v] < starts'[v]
    BY ONLY <1>4, <1>5, <2>1
  <2>3. announced[v] = "typing_start" /\ stops'[v] = stops[v] => stops'[v] < starts'[v]
    BY ONLY <1>5, <2>1
  <2> QED BY <1>5, <2>2, <2>3
<1> QED BY <1>2, <1>8, <1>9, <1>10, FlowNext

\* A step that leaves the pipe alone, and moves the key to its message at most.
LEMMA FlowRest ==
  ASSUME Inv, NEW v \in Undisturbed, UNCHANGED <<op, pipe, starts, stops, announced>>,
         expired'[v] + (IF v \in typing' THEN 1 ELSE 0)
           = expired[v] + (IF v \in typing THEN 1 ELSE 0),
         expired'[v] \in Nat
  PROVE  Flow(v)'
<1>1. PICK n : n = Len(pipe)
  OBVIOUS
<1>2. \A i \in 0..n : \A pc : Count(v, pc, i)' = Count(v, pc, i)
  BY DEF Count, Publishing, UpTo
<1>3. Account(v, n)
  BY <1>1, FlowFacts
<1>4. starts[v] + Count(v, "pub_start", n)'
        = stops[v] + Count(v, "pub_stop", n)' + expired'[v]
            + (IF v \in typing' THEN 1 ELSE 0)
  BY <1>2, <1>3 DEF Account
<1>5. \A i \in 0..n :
        stops[v] + Count(v, "pub_stop", i)' <= starts[v] + Count(v, "pub_start", i)'
  BY <1>2, <1>3 DEF Account
<1> QED BY <1>1, <1>3, <1>4, <1>5, FlowNext DEF Account

\* Nothing that a dead process has not lost was to be broadcast.
LEMMA DeadSilent ==
  ASSUME Inv, phase = "down", NEW v \in Undisturbed, NEW pc
  PROVE  Count(v, pc, Len(pipe)) = 0
<1>1. \A i \in 1..Len(pipe) : pipe[i] \in Worker /\ op[pipe[i]].user \in User
  BY DEF Inv, PipeInv, TypeOK
<1>2. \A o \in UpTo(Len(pipe)) : op[o].user \in lost
  BY <1>1 DEF UpTo, Inv, LostInv
<1>3. Publishing(v, pc, Len(pipe)) = {}
  BY <1>2 DEF Publishing, Undisturbed
<1> QED BY <1>3, FS_EmptySet DEF Count

\* What was lost stays lost.
LEMMA LostGrows ==
  ASSUME lost \subseteq lost'
  PROVE  Undisturbed' \subseteq Undisturbed
BY DEF Undisturbed, Parsable

\* A step of a live process is no matter of LostInv.
LEMMA AliveInv ==
  ASSUME phase' # "down"
  PROVE  LostInv'
BY DEF LostInv

\* A call of startTyping.
LEMMA StartTypingInv ==
  ASSUME Inv, NEW o \in Worker, NEW u \in User, StartTyping(o, u)
  PROVE  Inv'
<1> USE DEF StartTyping, eventVars
<1>1. Issue(o, "set_nx", u) /\ "set_nx" \in Pc
  BY DEF Pc
<1>2. TypeOK' /\ PipeInv'
  BY <1>1, IssueKeeps DEF Inv, TypeOK
<1>3. LostInv'
  BY AliveInv DEF Issue
<1>4. FlowInv'
  <2> SUFFICES ASSUME NEW v \in Undisturbed' PROVE Flow(v)'
    BY DEF FlowInv
  <2>1. v \in Undisturbed
    BY LostGrows
  <2> QED BY <1>1, <2>1, FlowIssue
<1> QED BY <1>2, <1>3, <1>4 DEF Inv

\* A call of stopTyping.
LEMMA StopTypingInv ==
  ASSUME Inv, NEW o \in Worker, NEW u \in User, StopTyping(o, u)
  PROVE  Inv'
<1> USE DEF StopTyping, eventVars, countVars
<1>1. Issue(o, "del", u) /\ "del" \in Pc
  BY DEF Pc
<1>2. TypeOK' /\ PipeInv'
  BY <1>1, IssueKeeps DEF Inv, TypeOK
<1>3. LostInv'
  BY AliveInv DEF Issue
<1>4. FlowInv'
  <2> SUFFICES ASSUME NEW v \in Undisturbed' PROVE Flow(v)'
    BY DEF FlowInv
  <2>1. v \in Undisturbed
    BY LostGrows
  <2> QED BY <1>1, <2>1, FlowIssue
<1> QED BY <1>2, <1>3, <1>4 DEF Inv

\* SET NX: the key comes, and a typing_start is to be broadcast.
LEMMA SetTypingInv ==
  ASSUME Inv, NEW o \in Worker, SetTyping(o)
  PROVE  Inv'
<1> USE DEF SetTyping, AtHead, eventVars, countVars
<1>1. PICK p \in {"pub_start", "expire"} :
        /\ Await(o, p)
        /\ p = "pub_start" => op[o].user \notin typing /\ typing' = typing \cup {op[o].user}
        /\ p = "expire" => typing' = typing
  OBVIOUS
<1>2. pipe # << >> /\ Head(pipe) = o /\ p \in Pc
  BY DEF Pc
<1>3. op[o].user \in User
  <2>1. pipe[1] = o /\ 1 \in 1..Len(pipe)
    BY <1>2 DEF Inv, TypeOK
  <2> QED BY <2>1 DEF Inv, PipeInv
<1>4. TypeOK' /\ PipeInv'
  BY <1>1, <1>2, <1>3, AwaitKeeps DEF Inv, TypeOK
<1>5. LostInv'
  BY AliveInv
<1>6. FlowInv'
  <2> SUFFICES ASSUME NEW v \in Undisturbed' PROVE Flow(v)'
    BY DEF FlowInv
  <2>1. v \in Undisturbed
    BY LostGrows
  <2>2. IF v = op[o].user /\ p \in {"pub_start", "pub_stop"}
          THEN (v \in typing <=> p = "pub_stop") /\ (v \in typing' <=> p = "pub_start")
          ELSE v \in typing' <=> v \in typing
    BY <1>1
  <2> QED BY <1>1, <1>2, <2>1, <2>2, FlowAwait
<1> QED BY <1>4, <1>5, <1>6 DEF Inv

\* EXPIRE, after a SET NX that found the key.
LEMMA RefreshTypingInv ==
  ASSUME Inv, NEW o \in Worker, RefreshTyping(o)
  PROVE  Inv'
<1> USE DEF RefreshTyping, AtHead, eventVars, countVars
<1>1. pipe # << >> /\ Head(pipe) = o /\ Return(o) /\ op[o].pc = "expire"
  OBVIOUS
<1>2. TypeOK' /\ PipeInv'
  BY <1>1, ReturnKeeps DEF Inv, TypeOK
<1>3. LostInv'
  BY AliveInv
<1>4. FlowInv'
  <2> SUFFICES ASSUME NEW v \in Undisturbed' PROVE Flow(v)'
    BY DEF FlowInv
  <2>1. v \in Undisturbed
    BY LostGrows
  <2>2. starts'[v] = starts[v] + 0 /\ stops'[v] = stops[v] + 0
    BY <2>1, FlowCounts
  <2> QED BY <1>1, <2>1, <2>2, FlowReturn
<1> QED BY <1>2, <1>3, <1>4 DEF Inv

\* DEL: without a key that is all; with one, a typing_stop is to be broadcast.
LEMMA DeleteTypingInv ==
  ASSUME Inv, NEW o \in Worker, DeleteTyping(o)
  PROVE  Inv'
<1> USE DEF DeleteTyping, AtHead, eventVars, countVars
<1>1. /\ pipe # << >> /\ Head(pipe) = o /\ op[o].pc = "del" /\ "pub_stop" \in Pc
      /\ typing' = typing \ {op[o].user}
  BY DEF Pc
<1>2. CASE op[o].user \notin typing /\ Return(o)
  <2>1. TypeOK' /\ PipeInv'
    BY <1>1, <1>2, ReturnKeeps DEF Inv, TypeOK
  <2>2. LostInv'
    BY AliveInv
  <2>3. FlowInv'
    <3> SUFFICES ASSUME NEW v \in Undisturbed' PROVE Flow(v)'
      BY DEF FlowInv
    <3>1. v \in Undisturbed
      BY LostGrows
    <3>2. starts'[v] = starts[v] + 0 /\ stops'[v] = stops[v] + 0
      BY <3>1, FlowCounts
    <3>3. v \in typing' <=> v \in typing
      BY <1>1, <1>2
    <3> QED BY <1>1, <1>2, <3>1, <3>2, <3>3, FlowReturn
  <2> QED BY <2>1, <2>2, <2>3 DEF Inv
<1>3. CASE op[o].user \in typing /\ Await(o, "pub_stop")
  <2>1. TypeOK' /\ PipeInv'
    BY <1>1, <1>3, AwaitKeeps DEF Inv, TypeOK
  <2>2. LostInv'
    BY AliveInv
  <2>3. FlowInv'
    <3> SUFFICES ASSUME NEW v \in Undisturbed' PROVE Flow(v)'
      BY DEF FlowInv
    <3>1. v \in Undisturbed
      BY LostGrows
    <3>2. IF v = op[o].user
            THEN v \in typing /\ v \notin typing'
            ELSE v \in typing' <=> v \in typing
      BY <1>1, <1>3
    <3> QED BY <1>1, <1>3, <3>1, <3>2, FlowAwait
  <2> QED BY <2>1, <2>2, <2>3 DEF Inv
<1> QED BY <1>2, <1>3

\* The message of an expired key is heard; that of an id with a colon is dropped.
LEMMA DeliverTypingInv ==
  ASSUME Inv, NEW o \in Worker, NEW u \in User, DeliverTyping(o, u)
  PROVE  Inv'
<1> USE DEF DeliverTyping, eventVars, countVars
<1>1. /\ expired' = [expired EXCEPT ![u] = @ - 1] /\ expired[u] > 0
      /\ expired \in [User -> Nat] /\ "pub_stop" \in Pc
  BY DEF Inv, TypeOK, Pc
<1>2. expired' \in [User -> Nat]
  BY <1>1
<1>3. LostInv'
  BY AliveInv
<1>4. CASE u \in Parsable /\ Issue(o, "pub_stop", u)
  <2>1. TypeOK' /\ PipeInv'
    BY <1>1, <1>2, <1>4, IssueKeeps DEF Inv, TypeOK
  <2>2. FlowInv'
    <3> SUFFICES ASSUME NEW v \in Undisturbed' PROVE Flow(v)'
      BY DEF FlowInv
    <3>1. v \in Undisturbed
      BY LostGrows
    <3>2. IF v = u THEN expired[v] > 0 /\ expired'[v] = expired[v] - 1
                   ELSE expired'[v] = expired[v]
      BY <1>1, <3>1, FlowCounts
    <3> QED BY <1>1, <1>4, <3>1, <3>2, FlowIssue
  <2> QED BY <1>3, <2>1, <2>2 DEF Inv
<1>5. CASE u \notin Parsable /\ UNCHANGED <<op, pipe>>
  <2>1. TypeOK' /\ PipeInv'
    BY <1>2, <1>5 DEF Inv, TypeOK, PipeInv
  <2>2. FlowInv'
    <3> SUFFICES ASSUME NEW v \in Undisturbed' PROVE Flow(v)'
      BY DEF FlowInv
    <3>1. v \in Undisturbed
      BY LostGrows
    <3>2. expired'[v] = expired[v]
      BY <1>1, <1>5, <3>1 DEF Undisturbed, Parsable
    <3>3. expired'[v] \in Nat
      BY <3>1, <3>2, FlowCounts
    <3> QED BY <1>5, <3>1, <3>2, <3>3, FlowRest
  <2> QED BY <1>3, <2>1, <2>2 DEF Inv
<1> QED BY <1>4, <1>5

\* A key expires: its message is on its way, or lost.
LEMMA ExpireTypingInv ==
  ASSUME Inv, NEW u \in User, ExpireTyping(u)
  PROVE  Inv'
<1> USE DEF ExpireTyping, eventVars, countVars
<1>1. /\ u \in typing /\ typing' = typing \ {u} /\ expired \in [User -> Nat]
      /\ \/ expired' = [expired EXCEPT ![u] = @ + 1] /\ lost' = lost
         \/ lost' = lost \cup {u} /\ expired' = expired
  BY DEF Inv, TypeOK
<1>2. expired' \in [User -> Nat]
  BY <1>1
<1>3. TypeOK' /\ PipeInv'
  BY <1>2 DEF Inv, TypeOK, PipeInv
<1>4. LostInv'
  BY <1>1 DEF Inv, LostInv
<1>5. FlowInv'
  <2> SUFFICES ASSUME NEW v \in Undisturbed' PROVE Flow(v)'
    BY DEF FlowInv
  <2>1. v \in Undisturbed
    BY <1>1, LostGrows
  <2>2. expired'[v] \in Nat /\ expired[v] \in Nat
    BY <1>2, <2>1, FlowCounts
  <2>3. expired'[v] + (IF v \in typing' THEN 1 ELSE 0)
          = expired[v] + (IF v \in typing THEN 1 ELSE 0)
    <3>1. CASE v = u
      <4>1. v \notin lost'
        BY DEF Undisturbed
      <4> QED BY <1>1, <2>2, <3>1, <4>1
    <3>2. CASE v # u
      BY <1>1, <2>1, <3>2 DEF Undisturbed, Parsable
    <3> QED BY <3>1, <3>2
  <2> QED BY <2>1, <2>2, <2>3, FlowRest
<1> QED BY <1>3, <1>4, <1>5 DEF Inv

\* typing_start goes out.
LEMMA PublishStartInv ==
  ASSUME Inv, NEW o \in Worker, PublishStart(o)
  PROVE  Inv'
<1> USE DEF PublishStart, AtHead, countVars
<1> DEFINE u == op[o].user
<1>1. /\ pipe # << >> /\ Head(pipe) = o /\ Return(o) /\ op[o].pc = "pub_start"
      /\ announced' = [announced EXCEPT ![u] = "typing_start"]
      /\ starts' = [starts EXCEPT ![u] = @ + 1] /\ stops' = stops
  OBVIOUS
<1>2. u \in User /\ TypeOK
  BY <1>1, ReturnKeeps DEF Inv
<1> HIDE DEF u
<1>3. starts' \in [User -> Nat]
      /\ announced' \in [User -> {"none", "typing_start", "typing_stop"}]
  <2>1. starts \in [User -> Nat]
        /\ announced \in [User -> {"none", "typing_start", "typing_stop"}]
    BY <1>2 DEF TypeOK
  <2> QED BY ONLY <1>1, <1>2, <2>1
<1>4. TypeOK' /\ PipeInv'
  BY <1>1, <1>2, <1>3, ReturnKeeps DEF Inv, TypeOK
<1>5. LostInv'
  BY AliveInv
<1>6. FlowInv'
  <2> SUFFICES ASSUME NEW v \in Undisturbed' PROVE Flow(v)'
    BY DEF FlowInv
  <2>1. v \in Undisturbed
    BY LostGrows
  <2>2. v \in User /\ starts[v] \in Nat /\ stops[v] \in Nat
    BY <2>1, FlowCounts
  <2>3. starts'[v] = starts[v] + (IF v = u THEN 1 ELSE 0) /\ stops'[v] = stops[v] + 0
    BY <1>1, <1>2, <2>2 DEF TypeOK
  <2>4. announced'[v] = "typing_start"
          => v = u \/ (announced[v] = "typing_start" /\ stops'[v] = stops[v])
    BY <1>1, <1>2, <2>2 DEF TypeOK
  <2> QED BY <1>1, <2>1, <2>3, <2>4, FlowReturn DEF u
<1> QED BY <1>4, <1>5, <1>6 DEF Inv

\* typing_stop goes out.
LEMMA PublishStopInv ==
  ASSUME Inv, NEW o \in Worker, PublishStop(o)
  PROVE  Inv'
<1> USE DEF PublishStop, AtHead, countVars
<1> DEFINE u == op[o].user
<1>1. /\ pipe # << >> /\ Head(pipe) = o /\ Return(o) /\ op[o].pc = "pub_stop"
      /\ announced' = [announced EXCEPT ![u] = "typing_stop"]
      /\ stops' = [stops EXCEPT ![u] = @ + 1] /\ starts' = starts
  OBVIOUS
<1>2. u \in User /\ TypeOK
  BY <1>1, ReturnKeeps DEF Inv
<1> HIDE DEF u
<1>3. stops' \in [User -> Nat]
      /\ announced' \in [User -> {"none", "typing_start", "typing_stop"}]
  <2>1. stops \in [User -> Nat]
        /\ announced \in [User -> {"none", "typing_start", "typing_stop"}]
    BY <1>2 DEF TypeOK
  <2> QED BY ONLY <1>1, <1>2, <2>1
<1>4. TypeOK' /\ PipeInv'
  BY <1>1, <1>2, <1>3, ReturnKeeps DEF Inv, TypeOK
<1>5. LostInv'
  BY AliveInv
<1>6. FlowInv'
  <2> SUFFICES ASSUME NEW v \in Undisturbed' PROVE Flow(v)'
    BY DEF FlowInv
  <2>1. v \in Undisturbed
    BY LostGrows
  <2>2. v \in User /\ starts[v] \in Nat /\ stops[v] \in Nat
    BY <2>1, FlowCounts
  <2>3. stops'[v] = stops[v] + (IF v = u THEN 1 ELSE 0) /\ starts'[v] = starts[v] + 0
    BY <1>1, <1>2, <2>2 DEF TypeOK
  <2>4. announced'[v] = "typing_start"
          => announced[v] = "typing_start" /\ stops'[v] = stops[v]
    BY <1>1, <1>2, <2>2 DEF TypeOK
  <2> QED BY <1>1, <2>1, <2>3, <2>4, FlowReturn DEF u
<1> QED BY <1>4, <1>5, <1>6 DEF Inv

\* A command fails, or is answered to a dead process: its user is lost.
LEMMA LoseInv ==
  ASSUME Inv, NEW o \in Worker, Lose(o)
  PROVE  Inv'
<1> USE DEF Lose, eventVars
<1> DEFINE u == op[o].user
<1>1. /\ pipe # << >> /\ Head(pipe) = o /\ Return(o) /\ lost' = lost \cup {u}
      /\ typing' \in {typing, typing \cup {u}, typing \ {u}}
      /\ UNCHANGED <<phase, expired, starts, stops, announced>>
  BY DEF TypingWrite
<1>2. u \in User /\ TypeOK
  BY <1>1, ReturnKeeps DEF Inv
<1>3. failures' \in Nat
  BY <1>2 DEF TypeOK
<1>4. op' = [op EXCEPT ![o] = Idle]
  BY <1>1 DEF Return
<1> HIDE DEF u
<1>5. TypeOK' /\ PipeInv'
  BY <1>1, <1>2, <1>3, ReturnKeeps DEF Inv, TypeOK
<1>6. LostInv'
  BY <1>1, <1>2, <1>4 DEF Inv, LostInv, TypeOK, Idle
<1>7. FlowInv'
  <2> SUFFICES ASSUME NEW v \in Undisturbed' PROVE Flow(v)'
    BY DEF FlowInv
  <2>1. v \in Undisturbed /\ v # u
    BY <1>1, LostGrows DEF Undisturbed
  <2>2. starts'[v] = starts[v] + 0 /\ stops'[v] = stops[v] + 0
    BY <1>1, <2>1, FlowCounts
  <2>3. v \in typing' <=> v \in typing
    BY <1>1, <2>1
  <2>4. v # op[o].user
    BY <2>1 DEF u
  <2> QED BY <1>1, <2>1, <2>2, <2>3, <2>4, FlowReturn
<1> QED BY <1>5, <1>6, <1>7 DEF Inv

\* The process ends: what was in progress and on its way is lost.
LEMMA CrashInv ==
  ASSUME Inv, Crash
  PROVE  Inv'
<1> USE DEF Crash, eventVars
<1>1. /\ lost' = lost \cup {u \in User : expired[u] > 0}
                      \cup ({op[o].user : o \in Worker} \ {None})
      /\ expired' = [u \in User |-> 0] /\ UNCHANGED <<typing, op, pipe, starts, stops, announced>>
  OBVIOUS
<1>2. \A o \in Worker : op[o].user \in User \cup {None}
  BY DEF Inv, TypeOK
<1>3. TypeOK' /\ PipeInv'
  BY <1>1, <1>2 DEF Inv, TypeOK, PipeInv
<1>4. LostInv'
  BY <1>1, <1>2 DEF LostInv
<1>5. FlowInv'
  <2> SUFFICES ASSUME NEW v \in Undisturbed' PROVE Flow(v)'
    BY DEF FlowInv
  <2>1. v \in Undisturbed
    BY <1>1, LostGrows
  <2>2. v \in User /\ expired[v] \in Nat
    BY <2>1, FlowCounts
  <2>3. expired[v] = 0 /\ expired'[v] = 0
    BY <1>1, <2>2 DEF Undisturbed
  <2> QED BY <1>1, <2>1, <2>3, FlowRest
<1> QED BY <1>3, <1>4, <1>5 DEF Inv

\* A new process starts with nothing to do.
LEMMA RestartInv ==
  ASSUME Inv, Restart
  PROVE  Inv'
<1> USE DEF Restart, eventVars, countVars
<1>1. /\ phase = "down" /\ pipe' = << >> /\ op' = [o \in Worker |-> Idle]
      /\ UNCHANGED <<typing, expired, lost, starts, stops, announced>>
  OBVIOUS
<1>2. TypeOK' /\ PipeInv'
  BY <1>1 DEF Inv, TypeOK, PipeInv, Idle, Pc
<1>3. LostInv'
  BY AliveInv
<1>4. FlowInv'
  <2> SUFFICES ASSUME NEW v \in Undisturbed' PROVE Flow(v)'
    BY DEF FlowInv
  <2>1. v \in Undisturbed
    BY <1>1, LostGrows
  <2>2. PICK n : n = Len(pipe)
    OBVIOUS
  <2>3. Account(v, n)
    BY <2>1, <2>2, FlowFacts
  <2>4. /\ Count(v, "pub_start", n) = 0 /\ Count(v, "pub_stop", n) = 0
        /\ Count(v, "pub_start", 0) = 0 /\ Count(v, "pub_stop", 0) = 0
    BY <1>1, <2>1, <2>2, DeadSilent, CountNone
  <2>5. Count(v, "pub_start", 0)' = 0 /\ Count(v, "pub_stop", 0)' = 0
    <3>1. UpTo(0)' = {}
      BY DEF UpTo
    <3>2. \A pc : Publishing(v, pc, 0)' = {}
      BY <3>1 DEF Publishing
    <3> QED BY <3>2, FS_EmptySet DEF Count
  <2>6. /\ starts[v] \in Nat /\ stops[v] \in Nat /\ 0 \in 0..n
        /\ starts[v] + 0 = stops[v] + 0 + expired[v] + (IF v \in typing THEN 1 ELSE 0)
        /\ stops[v] + 0 <= starts[v] + 0
        /\ announced[v] = "typing_start" => stops[v] < starts[v]
    BY <2>3, <2>4 DEF Account
  <2>7. Len(pipe') = 0 /\ \A i \in 0..0 : i = 0
    BY <1>1
  <2> QED BY <1>1, <2>5, <2>6, <2>7, FlowNext
<1> QED BY <1>2, <1>3, <1>4 DEF Inv

\* It subscribes to the expiry messages.
LEMMA ListenInv ==
  ASSUME Inv, Listen
  PROVE  Inv'
<1> USE DEF Listen, eventVars, countVars
<1>1. TypeOK' /\ PipeInv'
  BY DEF Inv, TypeOK, PipeInv
<1>2. LostInv'
  BY AliveInv
<1>3. FlowInv'
  <2> SUFFICES ASSUME NEW v \in Undisturbed' PROVE Flow(v)'
    BY DEF FlowInv
  <2>1. v \in Undisturbed
    BY LostGrows
  <2>2. expired'[v] \in Nat
    BY <2>1, FlowCounts
  <2> QED BY <2>1, <2>2, FlowRest
<1> QED BY <1>1, <1>2, <1>3 DEF Inv

\* Every step keeps the invariant.
LEMMA NextInv == Inv /\ [Next]_vars => Inv'
<1> SUFFICES ASSUME Inv, [Next]_vars PROVE Inv'
  OBVIOUS
<1>1. ASSUME NEW o \in Worker, NEW u \in User,
             StartTyping(o, u) \/ StopTyping(o, u) \/ DeliverTyping(o, u)
      PROVE  Inv'
  BY <1>1, StartTypingInv, StopTypingInv, DeliverTypingInv
<1>2. ASSUME NEW o \in Worker, Step(o) \/ Lose(o)
      PROVE  Inv'
  BY <1>2, SetTypingInv, RefreshTypingInv, DeleteTypingInv, PublishStartInv,
     PublishStopInv, LoseInv DEF Step
<1>3. ASSUME NEW u \in User, ExpireTyping(u)
      PROVE  Inv'
  BY <1>3, ExpireTypingInv
<1>4. CASE Crash \/ Restart \/ Listen
  BY <1>4, CrashInv, RestartInv, ListenInv
<1>5. CASE UNCHANGED vars
  <2>1. TypeOK' /\ PipeInv' /\ LostInv'
    BY <1>5 DEF vars, Inv, TypeOK, PipeInv, LostInv
  <2>2. FlowInv'
    <3> SUFFICES ASSUME NEW v \in Undisturbed' PROVE Flow(v)'
      BY DEF FlowInv
    <3>1. v \in Undisturbed /\ UNCHANGED <<op, pipe, typing, expired, starts, stops, announced>>
      BY <1>5, LostGrows DEF vars
    <3>2. expired'[v] \in Nat
      BY <3>1, FlowCounts
    <3> QED BY <3>1, <3>2, FlowRest
  <2> QED BY <2>1, <2>2 DEF Inv
<1> QED BY <1>1, <1>2, <1>3, <1>4, <1>5 DEF Next

-----------------------------------------------------------------------------
(* The theorems *)

\* The invariant holds always.
THEOREM InvHolds == Spec => []Inv
BY InitInv, NextInv, PTL DEF Spec

\* Every variable of the typing service keeps its type.
THEOREM TypingTypes == Spec => []TypeOK
<1>1. Inv => TypeOK
  BY DEF Inv
<1> QED BY <1>1, InvHolds, PTL

\* Nothing is to be broadcast about a user about whom all has settled.
LEMMA SettledNone ==
  ASSUME Inv, NEW u \in Undisturbed, Settled(u)
  PROVE  /\ expired[u] = 0
         /\ Count(u, "pub_start", Len(pipe)) = 0
         /\ Count(u, "pub_stop", Len(pipe)) = 0
<1>1. \A pc \in {"pub_start", "pub_stop"} : Publishing(u, pc, Len(pipe)) = {}
  BY DEF Publishing, UpTo, Settled, Pending
<1> QED BY <1>1, FS_EmptySet DEF Count, Settled

\* startTyping, stopTyping and processExpiredKey: each start has its stop, whether
\* the user, the time to live or both ended it.
THEOREM StartsAreStopped == Spec => []EveryStartStopped
<1>1. Inv => EveryStartStopped
  <2> SUFFICES ASSUME Inv, NEW u \in Undisturbed, Settled(u)
               PROVE  starts[u] = stops[u] + (IF u \in typing THEN 1 ELSE 0)
    BY DEF EveryStartStopped
  <2> QED BY SettledNone, FlowCounts DEF Inv, FlowInv, Flow
<1> QED BY <1>1, InvHolds, PTL

\* publishEvent keeps the order: no typing_stop goes out before the typing_start
\* it ends, so that nobody stays announced who does not type.
THEOREM NoGhosts == Spec => []NoGhostTyping
<1>1. Inv => NoGhostTyping
  <2> SUFFICES ASSUME Inv, NEW u \in Undisturbed, Settled(u),
                      announced[u] = "typing_start"
               PROVE  u \in typing
    BY DEF NoGhostTyping
  <2>1. stops[u] < starts[u]
    BY DEF Inv, FlowInv, Flow
  <2>2. starts[u] = stops[u] + (IF u \in typing THEN 1 ELSE 0)
    BY SettledNone, FlowCounts DEF Inv, FlowInv, Flow
  <2> QED BY <2>1, <2>2, FlowCounts
<1> QED BY <1>1, InvHolds, PTL
=============================================================================
