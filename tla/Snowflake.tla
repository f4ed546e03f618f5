------------------------------ MODULE Snowflake ------------------------------
(***************************************************************************)
(* The generator of order, task and bill numbers (idgen/snowflake.go).     *)
(* Every process has one, with a worker id of its own and under a mutex:   *)
(* its calls come one after the other.  The wall clock of a process may    *)
(* step back at any moment.                                                *)
(*                                                                         *)
(* A generator keeps nothing over a restart; restarts are left out.        *)
(***************************************************************************)
EXTENDS Integers, FiniteSets

CONSTANTS WorkerIds,    \* processes, by worker id
          maxWorkerID,  \* MaxWorkerID
          maxSequence,
          maxClockBackward,
          epochMillis,
          MaxClock,     \* bound: the clock
          MaxIds        \* bound: identifiers of one process

ASSUME SnowflakeAssumption ==
  /\ maxWorkerID \in Nat /\ WorkerIds \subseteq 0..maxWorkerID
  /\ maxSequence \in Nat
  /\ maxClockBackward \in Nat /\ epochMillis \in Nat
  /\ MaxClock \in Nat /\ MaxIds \in Nat

VARIABLES clock,        \* clock[g]: time.Now().UnixMilli() in process g
          lastMillis, sequence,
          call,         \* call[g]: what NextID is doing
          issued,       \* identifiers returned so far
          count         \* count[g]: how many of them by g

idVars == <<clock, lastMillis, sequence, call, issued, count>>

\* (ms - epoch) << timestampShift | worker << workerIDShift | sequence
Id(ms, g, n) == ((ms - epochMillis) * (maxWorkerID + 1) + g) * (maxSequence + 1) + n

\* NextID ends with the identifier of millisecond ms and sequence number n.
Issue(g, ms, n) ==
  /\ lastMillis' = [lastMillis EXCEPT ![g] = ms]
  /\ issued' = issued \cup {Id(ms, g, n)}
  /\ count' = [count EXCEPT ![g] = @ + 1]
  /\ call' = [call EXCEPT ![g] = "idle"]

\* Mutant of Take: a sequence that has wrapped does not wait.
TakeAtOnce(g, now) ==
  LET n == IF now = lastMillis[g] THEN (sequence[g] + 1) % (maxSequence + 1) ELSE 0
  IN  sequence' = [sequence EXCEPT ![g] = n] /\ Issue(g, now, n)

\* NextID, the clock not being behind: the next number of this millisecond, the
\* first of a later one, or wait for the next millisecond.
Take(g, now) ==
  LET n == IF now = lastMillis[g] THEN (sequence[g] + 1) % (maxSequence + 1) ELSE 0
  IN  /\ sequence' = [sequence EXCEPT ![g] = n]
      /\ IF now = lastMillis[g] /\ n = 0
         THEN call' = [call EXCEPT ![g] = "spinning"] /\ UNCHANGED <<lastMillis, issued, count>>
         ELSE Issue(g, now, n)

Sleep(g) ==
  /\ call' = [call EXCEPT ![g] = "sleeping"]
  /\ UNCHANGED <<lastMillis, sequence, issued, count>>

\* NextID.  A clock before the epoch, or too far back, is an error.
NextID(g) ==
  /\ call[g] = "idle" /\ count[g] < MaxIds
  /\ clock[g] >= epochMillis
  /\ \/ clock[g] >= lastMillis[g] /\ Take(g, clock[g])
     \/ lastMillis[g] - clock[g] \in 1..maxClockBackward /\ Sleep(g)
  /\ UNCHANGED clock

\* After time.Sleep, which counts on a clock of its own: the wall clock may be
\* behind still, or again; that is an error.
Wake(g) ==
  /\ call[g] = "sleeping"
  /\ \/ clock[g] >= lastMillis[g] /\ Take(g, clock[g])
     \/ /\ clock[g] < lastMillis[g]
        /\ call' = [call EXCEPT ![g] = "idle"]
        /\ UNCHANGED <<lastMillis, sequence, issued, count>>
  /\ UNCHANGED clock

\* waitNextMillis ends.
NextMillis(g) ==
  /\ call[g] = "spinning" /\ clock[g] > lastMillis[g]
  /\ Issue(g, clock[g], sequence[g])
  /\ UNCHANGED <<clock, sequence>>

\* The clock goes on, or is set back.
ClockMoves(g) ==
  /\ clock' \in {[clock EXCEPT ![g] = t] : t \in (0..(clock[g] + 1)) \cap (0..MaxClock)}
  /\ UNCHANGED <<lastMillis, sequence, call, issued, count>>

IdsInit ==
  /\ clock = [g \in WorkerIds |-> 0]
  /\ lastMillis = [g \in WorkerIds |-> -1]
  /\ sequence = [g \in WorkerIds |-> 0]
  /\ call = [g \in WorkerIds |-> "idle"]
  /\ issued = {}
  /\ count = [g \in WorkerIds |-> 0]

IdsNext == \E g \in WorkerIds : NextID(g) \/ Wake(g) \/ NextMillis(g) \/ ClockMoves(g)

IdsSpec == IdsInit /\ [][IdsNext]_idVars

-----------------------------------------------------------------------------
(* Correctness.                                                            *)

IdsTypeOK ==
  /\ clock \in [WorkerIds -> 0..MaxClock]
  /\ lastMillis \in [WorkerIds -> (epochMillis..MaxClock) \cup {-1}]
  /\ sequence \in [WorkerIds -> 0..maxSequence]
  /\ call \in [WorkerIds -> {"idle", "sleeping", "spinning"}]
  /\ issued \subseteq Nat
  /\ count \in [WorkerIds -> Nat]

IssuedBy(g) == {id \in issued : (id \div (maxSequence + 1)) % (maxWorkerID + 1) = g}

\* No identifier is returned twice, by one process or by two, whatever the clocks do
\* and however many are asked for in one millisecond.
IdsUnique == \A g \in WorkerIds : Cardinality(IssuedBy(g)) = count[g]
=============================================================================
