-------------------------- MODULE HotBudget_proofs --------------------------
(***************************************************************************)
(* The hard cap and the reserve of HotBudget as theorems, for any finite   *)
(* sets of ranks and models, any sizes, homes, limits and bounds.          *)
(*                                                                         *)
(* Neither is inductive: that a copy may write one more unit follows from  *)
(* what was admitted before the first write.  Fits keeps that: what a rank *)
(* holds of the other models, which nobody writes while the hot lock is    *)
(* taken, leaves room for the charge below the cap and above the reserve,  *)
(* counted from the observation of that rank.  What a copy then writes     *)
(* beyond its charge is its Excess, of which there is one at a time: the   *)
(* next admission counts it among what the rank already holds.             *)
(***************************************************************************)
EXTENDS HotBudget, FiniteSetTheorems, TLAPS

-----------------------------------------------------------------------------
(* Sums.                                                                   *)

\* The units of finitely many amounts are finitely many.
LEMMA TotalFinite ==
  ASSUME NEW ks, IsFiniteSet(ks), NEW t, \A k \in ks : t[k] \in Nat
  PROVE  IsFiniteSet(UNION {{k} \X (1..t[k]) : k \in ks})
<1> DEFINE S == {{k} \X (1..t[k]) : k \in ks}
           f == [k \in ks |-> {k} \X (1..t[k])]
<1>1. f \in Surjection(ks, S)
  BY DEF Surjection
<1>2. IsFiniteSet(S)
  <2> HIDE DEF S, f
  <2> QED BY <1>1, FS_Surjection
<1>3. ASSUME NEW k \in ks PROVE IsFiniteSet({k} \X (1..t[k]))
  <2>1. IsFiniteSet({k})
    BY FS_Singleton
  <2>2. IsFiniteSet(1..t[k])
    BY FS_Interval
  <2> QED BY <2>1, <2>2, FS_Product
<1>4. \A T \in S : IsFiniteSet(T)
  BY <1>3
<1> HIDE DEF S
<1>5. IsFiniteSet(UNION S)
  BY <1>2, <1>4, FS_UNION
<1> QED BY <1>5 DEF S

LEMMA TotalNat ==
  ASSUME NEW ks, IsFiniteSet(ks), NEW t, \A k \in ks : t[k] \in Nat
  PROVE  Total(t, ks) \in Nat
BY TotalFinite, FS_CardinalityType DEF Total

\* A sum is one of its terms and the sum of the others.
LEMMA TotalSplit ==
  ASSUME NEW ks, IsFiniteSet(ks), NEW t, \A k \in ks : t[k] \in Nat, NEW m \in ks
  PROVE  /\ Total(t, ks) = Total(t, ks \ {m}) + t[m]
         /\ Total(t, ks \ {m}) \in Nat
<1> DEFINE A == UNION {{k} \X (1..t[k]) : k \in ks}
           B == UNION {{k} \X (1..t[k]) : k \in ks \ {m}}
           C == {m} \X (1..t[m])
<1>1. IsFiniteSet(ks \ {m})
  BY FS_Difference
<1>2. Total(t, ks \ {m}) \in Nat
  BY <1>1, TotalNat
<1>3. IsFiniteSet(B)
  BY <1>1, TotalFinite
<1>4. A = B \cup C
  OBVIOUS
<1>5. B \cap C = {}
  OBVIOUS
<1>6. IsFiniteSet({m}) /\ Cardinality({m}) = 1
  BY FS_Singleton
<1>7. IsFiniteSet(1..t[m]) /\ Cardinality(1..t[m]) = t[m]
  BY FS_Interval
<1>8. IsFiniteSet(C) /\ Cardinality(C) = Cardinality({m}) * Cardinality(1..t[m])
  BY <1>6, <1>7, FS_Product
<1>9. Cardinality(C) = t[m]
  BY <1>6, <1>7, <1>8
<1>10. Total(t, ks) = Cardinality(A) /\ Total(t, ks \ {m}) = Cardinality(B)
  BY DEF Total
<1> HIDE DEF A, B, C
<1>11. Cardinality(A) = Cardinality(B) + Cardinality(C) - Cardinality({})
  BY <1>3, <1>4, <1>5, <1>8, FS_Union
<1> QED BY <1>2, <1>9, <1>10, <1>11, FS_EmptySet

LEMMA TotalSame ==
  ASSUME NEW ks, NEW t, NEW u, \A k \in ks : t[k] = u[k]
  PROVE  Total(t, ks) = Total(u, ks)
<1>1. {{k} \X (1..t[k]) : k \in ks} = {{k} \X (1..u[k]) : k \in ks}
  OBVIOUS
<1> QED BY <1>1 DEF Total

LEMMA TotalZero ==
  ASSUME NEW ks, NEW t, \A k \in ks : t[k] = 0
  PROVE  Total(t, ks) = 0
<1>1. UNION {{k} \X (1..t[k]) : k \in ks} = {}
  OBVIOUS
<1> QED BY <1>1, FS_EmptySet DEF Total

-----------------------------------------------------------------------------
(* The inductive invariant.                                                *)

Jobs ==
  [pc : {"idle", "observe", "copy", "cleanup"}, model : Models \cup {"none"},
   skip : BOOLEAN, killed : BOOLEAN, todo : SUBSET Ranks, blocked : BOOLEAN,
   seen : [Ranks -> Nat],
   worker : [Ranks -> {"none", "clear", "stage", "copy", "stamp", "done", "failed"}]]

TypeOK ==
  /\ held \in [Ranks -> [Models -> Nat]]
  /\ stamp \in [Ranks -> [Models -> {"none", "verifying", "ready"}]]
  /\ staged \in [Ranks -> Nat]
  /\ other \in [Ranks -> Nat]
  /\ job \in Jobs
  /\ job.pc # "idle" => job.model \in Models
  /\ faults \in Nat

\* The first half of CapKept, and the second half as a bound on the copies.
WithinCap ==
  \A r \in Ranks : \E m \in Models : Below(r, Models) <= Cap + Excess(m, r)
HubsCopied == \A r \in Ranks, m \in Models : held[r][m] <= Written(m, r)

\* What rank r holds of the models that are not being prepared.
Rest(r) == Below(r, Models \ {job.model})

\* Rank r has room for that and for the charge.
Room(r) ==
  /\ Rest(r) + Required(job.model, r) <= Cap
  /\ Rest(r) + Required(job.model, r) + Reserve <= Disk - job.seen[r]

\* The ranks observed so far have room unless one was blocked; all have it
\* while workers write.
Fits ==
  /\ job.pc = "observe" /\ ~job.blocked => \A r \in Ranks \ job.todo : Room(r)
  /\ job.pc = "copy" => \A r \in Ranks : Room(r)

Inv == TypeOK /\ WithinCap /\ HubsCopied /\ Fits

-----------------------------------------------------------------------------
(* Amounts.                                                                *)

LEMMA Amounts ==
  ASSUME NEW m \in Models, NEW r \in Ranks
  PROVE  Required(m, r) \in Nat /\ Written(m, r) \in Nat
BY SizeAssumption DEF Required, Written

LEMMA BytesNat ==
  ASSUME TypeOK, NEW m \in Models, NEW r \in Ranks
  PROVE  Bytes(r, m) \in Nat /\ held[r][m] \in Nat /\ Bytes(r, m) <= held[r][m] + Meta
<1>1. held[r][m] \in Nat
  BY DEF TypeOK
<1>2. Meta \in Nat
  BY SizeAssumption
<1> QED BY <1>1, <1>2 DEF Bytes

\* An instance holds no more than its charge and its excess.
LEMMA ExcessCovers ==
  ASSUME NEW m \in Models, NEW r \in Ranks, Bytes(r, m) \in Nat
  PROVE  Excess(m, r) \in Nat /\ Bytes(r, m) <= Required(m, r) + Excess(m, r)
BY Amounts DEF Excess, Beyond

\* What a rank holds below the hot root.
LEMMA Holds ==
  ASSUME TypeOK, NEW r \in Ranks, NEW m \in Models
  PROVE  /\ Below(r, Models) = Below(r, Models \ {m}) + Bytes(r, m)
         /\ Below(r, Models \ {m}) \in Nat
         /\ Bytes(r, m) \in Nat
<1> DEFINE t == [k \in Models |-> Bytes(r, k)]
<1>1. \A k \in Models : t[k] \in Nat
  BY BytesNat
<1>2. t[m] = Bytes(r, m)
  OBVIOUS
<1> HIDE DEF t
<1>3. Total(t, Models) = Total(t, Models \ {m}) + t[m] /\ Total(t, Models \ {m}) \in Nat
  BY <1>1, TotalSplit, RanksAssumption
<1> QED BY <1>1, <1>2, <1>3 DEF Below, t

LEMMA HoldsNext ==
  ASSUME TypeOK', NEW r \in Ranks, NEW m \in Models
  PROVE  /\ Below(r, Models)' = Below(r, Models \ {m})' + Bytes(r, m)'
         /\ Bytes(r, m)' \in Nat
<1> DEFINE t == [k \in Models |-> Bytes(r, k)']
<1>1. \A k \in Models : t[k] \in Nat
  <2> SUFFICES ASSUME NEW k \in Models PROVE Bytes(r, k)' \in Nat
    OBVIOUS
  <2>1. held'[r][k] \in Nat
    BY DEF TypeOK
  <2> QED BY <2>1, SizeAssumption DEF Bytes
<1>2. t[m] = Bytes(r, m)'
  OBVIOUS
<1> HIDE DEF t
<1>3. Total(t, Models) = Total(t, Models \ {m}) + t[m] /\ Total(t, Models \ {m}) \in Nat
  BY <1>1, TotalSplit, RanksAssumption
<1> QED BY <1>1, <1>2, <1>3 DEF Below, t

\* Where only one model's amounts change, the rest stays.
LEMMA Elsewhere ==
  ASSUME NEW m \in Models, NEW r \in Ranks,
         \A k \in Models \ {m} : Bytes(r, k)' = Bytes(r, k)
  PROVE  Below(r, Models \ {m})' = Below(r, Models \ {m})
<1> DEFINE t == [k \in Models |-> Bytes(r, k)]
           u == [k \in Models |-> Bytes(r, k)']
<1>1. \A k \in Models \ {m} : u[k] = t[k]
  OBVIOUS
<1> HIDE DEF t, u
<1>2. Total(u, Models \ {m}) = Total(t, Models \ {m})
  BY <1>1, TotalSame
<1> QED BY <1>2 DEF Below, t, u

\* Amounts of one model that only shrink keep the cap.
LEMMA Shrinks ==
  ASSUME TypeOK, TypeOK', WithinCap, NEW m \in Models,
         \A q \in Ranks : \A k \in Models \ {m} : Bytes(q, k)' = Bytes(q, k),
         \A q \in Ranks : Bytes(q, m)' <= Bytes(q, m)
  PROVE  WithinCap'
<1> SUFFICES ASSUME NEW q \in Ranks
             PROVE  \E k \in Models : Below(q, Models)' <= Cap + Excess(k, q)'
  BY DEF WithinCap
<1>1. /\ Below(q, Models) = Below(q, Models \ {m}) + Bytes(q, m)
      /\ Below(q, Models \ {m}) \in Nat /\ Bytes(q, m) \in Nat
  BY Holds
<1>2. /\ Below(q, Models)' = Below(q, Models \ {m})' + Bytes(q, m)'
      /\ Bytes(q, m)' \in Nat
  BY HoldsNext
<1>3. Below(q, Models \ {m})' = Below(q, Models \ {m})
  BY Elsewhere
<1>4. PICK k \in Models : Below(q, Models) <= Cap + Excess(k, q)
  BY DEF WithinCap
<1>5. Required(m, q) \in Nat /\ Required(m, q)' = Required(m, q)
  BY Amounts DEF Required
<1>6. CASE k = m
  <2>1. Excess(m, q) = Beyond(Bytes(q, m), Required(m, q))
        /\ Excess(m, q)' = Beyond(Bytes(q, m)', Required(m, q))
    BY <1>5 DEF Excess, Beyond
  <2>2. Bytes(q, m)' <= Bytes(q, m)
    OBVIOUS
  <2>3. Below(q, Models)' <= Cap + Excess(m, q)'
    BY <1>1, <1>2, <1>3, <1>4, <1>5, <1>6, <2>1, <2>2, LimitsAssumption DEF Beyond
  <2> QED BY <2>3
<1>7. CASE k # m
  <2>1. Excess(k, q)' = Excess(k, q)
    BY <1>7 DEF Excess, Beyond, Required
  <2>2. Excess(k, q) \in Nat
    BY BytesNat, ExcessCovers
  <2>3. Bytes(q, m)' <= Bytes(q, m)
    OBVIOUS
  <2>4. Below(q, Models)' <= Cap + Excess(k, q)'
    BY <1>1, <1>2, <1>3, <1>4, <2>1, <2>2, <2>3, LimitsAssumption
  <2> QED BY <2>4
<1> QED BY <1>6, <1>7

\* While there is room for the charge, whatever one copy writes is its excess.
LEMMA OneExcess ==
  ASSUME TypeOK, TypeOK', job.pc = "copy", Fits,
         NEW m \in Models, m = job.model,
         \A q \in Ranks : \A k \in Models \ {m} : Bytes(q, k)' = Bytes(q, k)
  PROVE  WithinCap'
<1> SUFFICES ASSUME NEW q \in Ranks
             PROVE  Below(q, Models)' <= Cap + Excess(m, q)'
  BY DEF WithinCap
<1>1. /\ Below(q, Models)' = Below(q, Models \ {m})' + Bytes(q, m)'
      /\ Bytes(q, m)' \in Nat
  BY HoldsNext
<1>2. Below(q, Models \ {m})' = Below(q, Models \ {m})
  BY Elsewhere
<1>3. Below(q, Models \ {m}) \in Nat
  BY Holds
<1>4. Below(q, Models \ {m}) + Required(m, q) <= Cap
  BY DEF Fits, Room, Rest
<1>5. Required(m, q) \in Nat /\ Required(m, q)' = Required(m, q)
  BY Amounts DEF Required
<1>6. Excess(m, q)' = Beyond(Bytes(q, m)', Required(m, q))
  BY <1>5 DEF Excess, Beyond
<1> QED BY <1>1, <1>2, <1>3, <1>4, <1>5, <1>6, LimitsAssumption DEF Beyond

\* A step that leaves the other models' bytes, the model and what was seen
\* leaves the room of every rank.
LEMMA RoomStays ==
  ASSUME NEW m \in Models, m = job.model, job'.model = m, NEW r \in Ranks,
         \A k \in Models \ {m} : Bytes(r, k)' = Bytes(r, k),
         job'.seen[r] = job.seen[r], Room(r)
  PROVE  Room(r)'
<1>1. Below(r, Models \ {m})' = Below(r, Models \ {m})
  BY Elsewhere
<1>2. Rest(r)' = Below(r, Models \ {m})' /\ Rest(r) = Below(r, Models \ {m})
  BY DEF Rest, Below
<1> QED BY <1>1, <1>2 DEF Room, Required

\* So a step of a preparation that writes keeps the invariant.
LEMMA Writes ==
  ASSUME Inv, TypeOK', HubsCopied', job.pc = "copy", job'.pc = "copy",
         job'.model = job.model, job'.seen = job.seen,
         \A q \in Ranks : \A k \in Models \ {job.model} : Bytes(q, k)' = Bytes(q, k)
  PROVE  Inv'
<1>1. PICK m \in Models : m = job.model
  BY DEF Inv, TypeOK
<1>2. WithinCap'
  BY <1>1, OneExcess DEF Inv
<1>3. \A q \in Ranks : Room(q)'
  BY <1>1, RoomStays DEF Inv, Fits
<1> QED BY <1>2, <1>3 DEF Inv, Fits

\* A step that leaves every instance alone.
LEMMA Untouched ==
  ASSUME Inv, TypeOK', UNCHANGED <<held, stamp>>
  PROVE  /\ WithinCap' /\ HubsCopied'
         /\ \A r \in Ranks, m \in Models : Bytes(r, m)' = Bytes(r, m)
<1>1. HubsCopied'
  BY DEF Inv, HubsCopied, Written
<1>2. WithinCap'
  BY DEF Inv, WithinCap, Below, Bytes, Excess, Beyond, Required
<1> QED BY <1>1, <1>2 DEF Bytes

\* An observed rank that blocks nothing has room.
LEMMA ObservedFits ==
  ASSUME TypeOK, NEW m \in Models, NEW r \in Ranks, ~Blocked(m, r)
  PROVE  /\ Below(r, Models \ {m}) + Required(m, r) <= Cap
         /\ Below(r, Models \ {m}) + Required(m, r) + Reserve <= Disk - other[r]
<1>1. /\ Below(r, Models) = Below(r, Models \ {m}) + Bytes(r, m)
      /\ Below(r, Models \ {m}) \in Nat /\ Bytes(r, m) \in Nat
  BY Holds
<1>2. Staging(r) \in Nat
  <2>1. Total(staged, Ranks) \in Nat
    BY TotalNat, RanksAssumption DEF TypeOK
  <2> QED BY <2>1 DEF Staging
<1>3. Required(m, r) \in Nat /\ other[r] \in Nat
  BY Amounts DEF TypeOK
<1>4. (Below(r, Models) - Bytes(r, m)) + Required(m, r) <= Cap
  BY <1>1, <1>3, LimitsAssumption DEF Blocked, OverCap, Owned
<1>5. Disk - other[r] - Below(r, Models) - Staging(r) >= Reserve + Required(m, r)
  BY <1>1, <1>2, <1>3, LimitsAssumption DEF Blocked, UnderReserve, Free
<1> QED BY <1>1, <1>2, <1>3, <1>4, <1>5, LimitsAssumption

-----------------------------------------------------------------------------
(* The steps.                                                              *)

LEMMA InitInv == Init => Inv
<1> SUFFICES ASSUME Init PROVE Inv
  OBVIOUS
<1>1. TypeOK
  BY DEF Init, TypeOK, Jobs, Idle
<1>2. WithinCap
  <2> SUFFICES ASSUME NEW r \in Ranks
               PROVE  \E m \in Models : Below(r, Models) <= Cap + Excess(m, r)
    BY DEF WithinCap
  <2>1. PICK m \in Models : TRUE
    BY RanksAssumption
  <2>2. \A k \in Models : Bytes(r, k) = 0
    BY DEF Init, Bytes
  <2>3. Below(r, Models) = 0
    BY <2>2, TotalZero DEF Below
  <2>4. Excess(m, r) \in Nat
    BY <1>1, BytesNat, ExcessCovers
  <2> QED BY <2>3, <2>4, LimitsAssumption
<1>3. HubsCopied
  BY Amounts DEF Init, HubsCopied
<1>4. Fits
  BY DEF Init, Idle, Fits
<1> QED BY <1>1, <1>2, <1>3, <1>4 DEF Inv

LEMMA PlanStep == ASSUME Inv, NEW m \in Models, Plan(m) PROVE Inv'
<1>1. TypeOK'
  BY DEF Inv, TypeOK, Plan, Jobs, Idle
<1>2. UNCHANGED <<held, stamp>>
  BY DEF Plan
<1>3. job'.pc = "observe" /\ job'.todo = Ranks
  BY DEF Plan, Idle
<1> QED BY <1>1, <1>2, <1>3, Untouched DEF Inv, Fits

LEMMA ObserveStep == ASSUME Inv, NEW r \in Ranks, Observe(r) PROVE Inv'
<1> DEFINE m == job.model
<1>0. m \in Models /\ job \in Jobs
  BY DEF Inv, TypeOK, Observe
<1>1. /\ job' \in Jobs /\ job'.pc = "observe" /\ job'.model = m
      /\ job'.todo = job.todo \ {r}
      /\ job'.blocked = (job.blocked \/ Blocked(m, r))
      /\ job'.seen = [job.seen EXCEPT ![r] = other[r]]
      /\ UNCHANGED <<held, stamp, staged, other, faults>>
  BY <1>0 DEF Inv, TypeOK, Observe, Jobs
<1>2. TypeOK'
  BY <1>0, <1>1 DEF Inv, TypeOK
<1>3. /\ WithinCap' /\ HubsCopied'
      /\ \A q \in Ranks, k \in Models : Bytes(q, k)' = Bytes(q, k)
  BY <1>1, <1>2, Untouched
<1>4. ASSUME ~job'.blocked, NEW q \in Ranks \ job'.todo PROVE Room(q)'
  <2>1. CASE q = r
    <3>1. ~Blocked(m, r)
      BY <1>1, <1>4
    <3>2. /\ Below(r, Models \ {m}) + Required(m, r) <= Cap
          /\ Below(r, Models \ {m}) + Required(m, r) + Reserve <= Disk - other[r]
      BY <1>0, <3>1, ObservedFits DEF Inv
    <3>3. job'.seen[r] = other[r]
      BY <1>0, <1>1 DEF Jobs
    <3> QED BY <2>1, <3>2, <3>3, <1>1 DEF Room, Rest, Below, Bytes, Required
  <2>2. CASE q # r
    <3>1. Room(q)
      BY <2>2, <1>1, <1>4 DEF Inv, Fits, Observe
    <3>2. job'.seen[q] = job.seen[q]
      BY <2>2, <1>0, <1>1 DEF Jobs
    <3> QED BY <3>1, <3>2, <1>0, <1>1, <1>3, RoomStays
  <2> QED BY <2>1, <2>2
<1> QED BY <1>1, <1>2, <1>3, <1>4 DEF Inv, Fits

LEMMA AdmitStep == ASSUME Inv, Admit PROVE Inv'
<1>0. TypeOK' /\ UNCHANGED <<held, stamp>>
  BY DEF Inv, TypeOK, Admit, Idle, Jobs
<1>1. CASE job.blocked \/ job.skip
  <2>1. job'.pc = "idle"
    BY <1>1 DEF Admit, Idle
  <2> QED BY <1>0, <2>1, Untouched DEF Inv, Fits
<1>2. CASE ~(job.blocked \/ job.skip)
  <2>1. job'.pc = "copy" /\ job'.model = job.model /\ job'.seen = job.seen
    BY <1>2 DEF Inv, TypeOK, Admit, Jobs
  <2>2. job.model \in Models /\ \A r \in Ranks : Room(r)
    BY <1>2 DEF Inv, TypeOK, Fits, Admit
  <2>3. \A r \in Ranks : Room(r)'
    BY <1>0, <2>1, <2>2, Untouched, RoomStays
  <2> QED BY <1>0, <2>1, <2>3, Untouched DEF Inv, Fits
<1> QED BY <1>1, <1>2

\* Workers that turn to their next step, or fail, over unchanged instances.
LEMMA WorkerTurns ==
  ASSUME Inv, job.pc = "copy", NEW r \in Ranks,
         NEW step \in {"stage", "copy", "stamp", "done", "failed"},
         job' = [job EXCEPT !.worker[r] = step] \/ UNCHANGED job,
         UNCHANGED <<held, stamp, other>>,
         staged' \in [Ranks -> Nat], faults' \in Nat
  PROVE  Inv'
<1>1. /\ job' \in Jobs /\ job'.pc = "copy" /\ job'.model = job.model
      /\ job'.seen = job.seen
  <2>1. CASE job' = [job EXCEPT !.worker[r] = step]
    BY <2>1 DEF Inv, TypeOK, Jobs
  <2>2. CASE UNCHANGED job
    BY <2>2 DEF Inv, TypeOK
  <2> QED BY <2>1, <2>2
<1>2. TypeOK'
  BY <1>1 DEF Inv, TypeOK
<1>3. job.model \in Models
  BY DEF Inv, TypeOK
<1> QED BY <1>1, <1>2, <1>3, Untouched, Writes

\* A worker writes below one instance directory, and no more than the hub.
LEMMA WorkerWrites ==
  ASSUME Inv, job.pc = "copy", NEW r \in Ranks, NEW n \in Nat,
         n <= Written(job.model, r), NEW s \in {"none", "verifying", "ready"},
         NEW step \in {"stage", "copy", "done"},
         job' = [job EXCEPT !.worker[r] = step] \/ UNCHANGED job,
         held' = [held EXCEPT ![r][job.model] = n],
         stamp' = [stamp EXCEPT ![r][job.model] = s],
         UNCHANGED <<staged, other, faults>>
  PROVE  Inv'
<1>0. PICK m \in Models : m = job.model
  BY DEF Inv, TypeOK
<1>1. /\ job' \in Jobs /\ job'.pc = "copy" /\ job'.model = m
      /\ job'.seen = job.seen
  <2>1. CASE job' = [job EXCEPT !.worker[r] = step]
    BY <1>0, <2>1 DEF Inv, TypeOK, Jobs
  <2>2. CASE UNCHANGED job
    BY <1>0, <2>2 DEF Inv, TypeOK
  <2> QED BY <2>1, <2>2
<1>2. /\ held' \in [Ranks -> [Models -> Nat]]
      /\ stamp' \in [Ranks -> [Models -> {"none", "verifying", "ready"}]]
      /\ held'[r][m] = n
      /\ \A q \in Ranks : \A k \in Models :
           q # r \/ k # m => held'[q][k] = held[q][k] /\ stamp'[q][k] = stamp[q][k]
  BY <1>0 DEF Inv, TypeOK
<1>3. TypeOK'
  BY <1>0, <1>1, <1>2 DEF Inv, TypeOK
<1>4. HubsCopied'
  BY <1>0, <1>2 DEF Inv, HubsCopied, Written
<1>5. \A q \in Ranks : \A k \in Models \ {m} : Bytes(q, k)' = Bytes(q, k)
  BY <1>2 DEF Bytes
<1> QED BY <1>0, <1>1, <1>3, <1>4, <1>5, Writes

LEMMA ClearStep == ASSUME Inv, NEW r \in Ranks, WorkerClear(r) PROVE Inv'
<1> DEFINE m == job.model
           step == IF Relayed(m, r) THEN "stage" ELSE "copy"
<1>1. job.pc = "copy" /\ m \in Models
  BY DEF Inv, TypeOK, WorkerClear, At
<1>2. 0 <= Written(m, r)
  BY <1>1, Amounts
<1>3. stamp[r][m] \in {"none", "verifying", "ready"}
      /\ stamp' = [stamp EXCEPT ![r][m] = stamp[r][m]]
  BY <1>1 DEF Inv, TypeOK, WorkerClear
<1>4. /\ held' = [held EXCEPT ![r][m] = 0]
      /\ job' = [job EXCEPT !.worker[r] = step]
      /\ UNCHANGED <<staged, other, faults>>
  BY DEF WorkerClear
<1>5. step \in {"stage", "copy", "done"}
  OBVIOUS
<1> HIDE DEF step
<1> QED BY <1>1, <1>2, <1>3, <1>4, <1>5, WorkerWrites

LEMMA StageStep == ASSUME Inv, NEW r \in Ranks, WorkerStage(r) PROVE Inv'
<1>1. job.pc = "copy"
  BY DEF WorkerStage, At
<1>2. /\ job' = [job EXCEPT !.worker[r] = "copy"] \/ UNCHANGED job
      /\ UNCHANGED <<held, stamp, other, faults>>
  BY DEF WorkerStage
<1>3. staged' \in [Ranks -> Nat]
  BY DEF WorkerStage, Inv, TypeOK
<1> QED BY <1>1, <1>2, <1>3, WorkerTurns DEF Inv, TypeOK

\* One more unit stays within the hub.
LEMMA CopyStep == ASSUME Inv, NEW r \in Ranks, WorkerCopy(r) PROVE Inv'
<1> DEFINE m == job.model
<1>0. job.pc = "copy" /\ m \in Models
  BY DEF Inv, TypeOK, WorkerCopy, At
<1>1. CASE ~(held[r][m] < Written(m, r))
  <2>1. /\ job' = [job EXCEPT !.worker[r] = "stamp"]
        /\ staged' = [staged EXCEPT ![r] = 0]
        /\ UNCHANGED <<held, stamp, other, faults>>
    BY <1>1 DEF WorkerCopy
  <2>2. staged' \in [Ranks -> Nat]
    BY <2>1 DEF Inv, TypeOK
  <2> QED BY <1>0, <2>1, <2>2, WorkerTurns DEF Inv, TypeOK
<1>2. CASE held[r][m] < Written(m, r)
  <2> DEFINE n == held[r][m] + 1
  <2>1. n \in Nat /\ n <= Written(m, r)
    BY <1>0, <1>2, BytesNat, Amounts DEF Inv
  <2>2. held' = [held EXCEPT ![r][m] = n] /\ UNCHANGED <<stamp, staged, other, job, faults>>
    <3>1. held' = [held EXCEPT ![r][m] = @ + 1]
          /\ UNCHANGED <<stamp, staged, other, job, faults>>
      BY <1>2 DEF WorkerCopy
    <3> QED BY <3>1, <1>0 DEF Inv, TypeOK
  <2>3. stamp[r][m] \in {"none", "verifying", "ready"}
        /\ stamp' = [stamp EXCEPT ![r][m] = stamp[r][m]]
    BY <1>0, <2>2 DEF Inv, TypeOK
  <2> HIDE DEF n
  <2> QED BY <1>0, <2>1, <2>2, <2>3, WorkerWrites
<1> QED BY <1>1, <1>2

LEMMA StampStep == ASSUME Inv, NEW r \in Ranks, WorkerStamp(r) PROVE Inv'
<1> DEFINE m == job.model
           n == held[r][m]
<1>1. job.pc = "copy" /\ m \in Models
  BY DEF Inv, TypeOK, WorkerStamp, At
<1>2. /\ job' = [job EXCEPT !.worker[r] = "done"]
      /\ stamp' = [stamp EXCEPT ![r][m] = "verifying"]
      /\ UNCHANGED <<held, staged, other, faults>>
  BY DEF WorkerStamp
<1>3. held' = [held EXCEPT ![r][m] = n] /\ n \in Nat /\ n <= Written(m, r)
  BY <1>1, <1>2 DEF Inv, TypeOK, HubsCopied
<1> HIDE DEF n
<1> QED BY <1>1, <1>2, <1>3, WorkerWrites

LEMMA FailsStep == ASSUME Inv, NEW r \in Ranks, WorkerFails(r) PROVE Inv'
<1>1. /\ job.pc = "copy" /\ job' = [job EXCEPT !.worker[r] = "failed"]
      /\ UNCHANGED <<held, stamp, staged, other>>
      /\ faults' \in Nat
  BY DEF WorkerFails, Inv, TypeOK
<1> QED BY <1>1, WorkerTurns DEF Inv, TypeOK

LEMMA KilledStep == ASSUME Inv, Killed PROVE Inv'
<1>1. CASE job.pc = "copy"
  <2>1. /\ job' = [job EXCEPT !.killed = TRUE]
        /\ UNCHANGED <<held, stamp, staged, other>> /\ faults' \in Nat
    BY <1>1 DEF Killed, Inv, TypeOK
  <2>2. /\ job' \in Jobs /\ job'.pc = "copy" /\ job'.model = job.model
        /\ job'.seen = job.seen
    BY <1>1, <2>1 DEF Inv, TypeOK, Jobs
  <2>3. TypeOK' /\ job.model \in Models
    BY <1>1, <2>1, <2>2 DEF Inv, TypeOK
  <2> QED BY <1>1, <2>1, <2>2, <2>3, Untouched, Writes
<1>2. CASE job.pc # "copy"
  <2>1. TypeOK' /\ UNCHANGED <<held, stamp>> /\ job'.pc = "idle"
    BY <1>2 DEF Killed, Inv, TypeOK, Idle, Jobs
  <2> QED BY <2>1, Untouched DEF Inv, Fits
<1> QED BY <1>1, <1>2

LEMMA JoinStep == ASSUME Inv, Join PROVE Inv'
<1>0. PICK m \in Models : m = job.model
  BY DEF Join, Inv, TypeOK
<1>1. /\ job' = Idle \/ job' = [job EXCEPT !.pc = "cleanup", !.todo = Ranks]
      /\ UNCHANGED <<held, staged, other, faults>>
  BY DEF Join
<1>2. /\ job' \in Jobs /\ job'.pc \in {"idle", "cleanup"}
      /\ job'.pc # "idle" => job'.model \in Models
  <2>1. CASE job' = Idle
    BY <2>1 DEF Jobs, Idle
  <2>2. CASE job' = [job EXCEPT !.pc = "cleanup", !.todo = Ranks]
    <3>1. job \in Jobs /\ job.model \in Models
      BY DEF Inv, TypeOK, Join
    <3> QED BY <2>2, <3>1 DEF Jobs
  <2> QED BY <1>1, <2>1, <2>2
<1>3. /\ stamp' \in [Ranks -> [Models -> {"none", "verifying", "ready"}]]
      /\ \A q \in Ranks : \A k \in Models \ {m} : stamp'[q][k] = stamp[q][k]
  BY <1>0 DEF Join, Inv, TypeOK
<1>4. TypeOK'
  BY <1>1, <1>2, <1>3 DEF Inv, TypeOK
<1>5. \A q \in Ranks : \A k \in Models \ {m} : Bytes(q, k)' = Bytes(q, k)
  BY <1>1, <1>3 DEF Bytes
<1>6. WithinCap'
  BY <1>0, <1>4, <1>5, OneExcess DEF Inv, Join
<1>7. HubsCopied'
  BY <1>1 DEF Inv, HubsCopied, Written
<1> QED BY <1>2, <1>4, <1>6, <1>7 DEF Inv, Fits

LEMMA CleanupStep == ASSUME Inv, NEW r \in Ranks, Cleanup(r) PROVE Inv'
<1> SUFFICES ASSUME NEW m \in Models, job.model = m PROVE Inv'
  BY DEF Inv, TypeOK, Cleanup
<1>0. held[r][m] \in Nat /\ stamp[r][m] \in {"none", "verifying", "ready"}
  BY DEF Inv, TypeOK
<1>1. /\ job' \in Jobs /\ job'.pc \in {"idle", "cleanup"}
      /\ job'.pc # "idle" => job'.model \in Models
  <2>1. CASE job.todo = {r}
    BY <2>1 DEF Cleanup, Inv, TypeOK, Jobs, Idle
  <2>2. CASE job.todo # {r}
    BY <2>2 DEF Cleanup, Inv, TypeOK, Jobs
  <2> QED BY <2>1, <2>2
<1>2. PICK n \in 0..held[r][m] : held' = [held EXCEPT ![r][m] = n]
  <2>1. 0 \in 0..held[r][m]
    BY <1>0
  <2> QED BY <2>1 DEF Cleanup
<1>3. PICK s \in {"none", stamp[r][m]} : stamp' = [stamp EXCEPT ![r][m] = s]
  BY DEF Cleanup
<1>4. UNCHANGED <<staged, other>> /\ faults' \in Nat
  BY DEF Cleanup, Inv, TypeOK
<1>5. /\ held' \in [Ranks -> [Models -> Nat]]
      /\ stamp' \in [Ranks -> [Models -> {"none", "verifying", "ready"}]]
      /\ held'[r][m] = n /\ stamp'[r][m] = s
      /\ \A q \in Ranks : \A k \in Models :
           q # r \/ k # m => held'[q][k] = held[q][k] /\ stamp'[q][k] = stamp[q][k]
  BY <1>0, <1>2, <1>3 DEF Inv, TypeOK
<1>6. TypeOK'
  BY <1>1, <1>4, <1>5 DEF Inv, TypeOK
<1>7. \A q \in Ranks : \A k \in Models \ {m} : Bytes(q, k)' = Bytes(q, k)
  BY <1>5 DEF Bytes
<1>8. ASSUME NEW q \in Ranks
      PROVE  held'[q][m] <= held[q][m] /\ Bytes(q, m)' <= Bytes(q, m)
  <2>1. Meta \in Nat /\ held[q][m] \in Nat
    BY SizeAssumption DEF Inv, TypeOK
  <2>2. CASE q = r
    BY <1>0, <1>5, <2>1, <2>2 DEF Bytes
  <2>3. CASE q # r
    BY <1>5, <2>1, <2>3 DEF Bytes
  <2> QED BY <2>2, <2>3
<1>9. WithinCap'
  BY <1>6, <1>7, <1>8, Shrinks DEF Inv
<1>10. HubsCopied'
  <2> SUFFICES ASSUME NEW q \in Ranks, NEW k \in Models
               PROVE  held'[q][k] <= Written(k, q)
    BY DEF HubsCopied, Written
  <2>1. held'[q][k] <= held[q][k] /\ held'[q][k] \in Nat /\ held[q][k] \in Nat
    <3>1. CASE k = m
      BY <3>1, <1>5, <1>8 DEF Inv, TypeOK
    <3>2. CASE k # m
      BY <3>2, <1>5 DEF Inv, TypeOK
    <3> QED BY <3>1, <3>2
  <2>2. held[q][k] <= Written(k, q) /\ Written(k, q) \in Nat
    BY Amounts DEF Inv, HubsCopied
  <2> QED BY <2>1, <2>2
<1> QED BY <1>1, <1>6, <1>9, <1>10 DEF Inv, Fits

LEMMA PurgeStep == ASSUME Inv, NEW m \in Models, Purge(m) PROVE Inv'
<1>1. /\ job.pc = "idle" /\ UNCHANGED <<staged, other, job, faults>>
      /\ held' = [r \in Ranks |-> [held[r] EXCEPT ![m] = 0]]
      /\ stamp' = [r \in Ranks |-> [stamp[r] EXCEPT ![m] = "none"]]
  BY DEF Purge, Idle
<1>2. TypeOK'
  BY <1>1 DEF Inv, TypeOK
<1>3. /\ \A q \in Ranks : held'[q][m] = 0 /\ stamp'[q][m] = "none"
      /\ \A q \in Ranks : \A k \in Models \ {m} :
           held'[q][k] = held[q][k] /\ stamp'[q][k] = stamp[q][k]
  BY <1>1 DEF Inv, TypeOK
<1>4. \A q \in Ranks : \A k \in Models \ {m} : Bytes(q, k)' = Bytes(q, k)
  BY <1>3 DEF Bytes
<1>5. ASSUME NEW q \in Ranks PROVE Bytes(q, m)' <= Bytes(q, m)
  <2>1. Bytes(q, m)' = 0
    BY <1>3 DEF Bytes
  <2>2. Bytes(q, m) \in Nat
    BY BytesNat DEF Inv
  <2> QED BY <2>1, <2>2
<1>6. WithinCap'
  BY <1>2, <1>4, <1>5, Shrinks DEF Inv
<1>7. HubsCopied'
  <2> SUFFICES ASSUME NEW q \in Ranks, NEW k \in Models
               PROVE  held'[q][k] <= Written(k, q)
    BY DEF HubsCopied, Written
  <2>1. held'[q][k] \in {0, held[q][k]}
    BY <1>3
  <2>2. held[q][k] <= Written(k, q) /\ Written(k, q) \in Nat
    BY Amounts DEF Inv, HubsCopied
  <2> QED BY <2>1, <2>2
<1> QED BY <1>1, <1>2, <1>6, <1>7 DEF Inv, Fits

LEMMA OutsideStep == ASSUME Inv, NEW r \in Ranks, Outside(r) PROVE Inv'
<1>1. /\ other' = [other EXCEPT ![r] = @ + 1]
      /\ UNCHANGED <<held, stamp, staged, job, faults>>
  BY DEF Outside
<1>2. TypeOK'
  BY <1>1 DEF Inv, TypeOK
<1>3. Fits'
  BY <1>1 DEF Inv, Fits, Room, Rest, Below, Bytes, Required
<1> QED BY <1>1, <1>2, <1>3, Untouched DEF Inv

LEMMA NextInv == Inv /\ [Next]_vars => Inv'
<1> SUFFICES ASSUME Inv, [Next]_vars PROVE Inv'
  OBVIOUS
<1>1. CASE \E m \in Models : Plan(m) \/ Purge(m)
  BY <1>1, PlanStep, PurgeStep
<1>2. CASE Admit \/ Join \/ Killed
  BY <1>2, AdmitStep, JoinStep, KilledStep
<1>3. CASE \E r \in Ranks : Observe(r) \/ Worker(r) \/ Cleanup(r) \/ Outside(r)
  BY <1>3, ObserveStep, ClearStep, StageStep, CopyStep, StampStep, FailsStep,
     CleanupStep, OutsideStep DEF Worker
<1>4. CASE UNCHANGED vars
  <2>1. TypeOK' /\ UNCHANGED <<held, stamp, job>>
    BY <1>4 DEF vars, Inv, TypeOK
  <2>2. Fits'
    BY <2>1 DEF Inv, Fits, Room, Rest, Below, Bytes, Required
  <2> QED BY <2>1, <2>2, Untouched DEF Inv
<1> QED BY <1>1, <1>2, <1>3, <1>4 DEF Next

LEMMA Invariance == Spec => []Inv
BY InitInv, NextInv, PTL DEF Spec

-----------------------------------------------------------------------------
(* The theorems.                                                           *)

LEMMA InvCap == Inv => CapKept
<1> SUFFICES ASSUME Inv, NEW r \in Ranks, NEW m \in Models
             PROVE  Excess(m, r) <= Uncharged(m, r)
  BY DEF CapKept, Inv, WithinCap
<1>1. /\ Bytes(r, m) \in Nat /\ held[r][m] \in Nat
      /\ Bytes(r, m) <= held[r][m] + Meta
  BY BytesNat DEF Inv
<1>2. held[r][m] <= Written(m, r)
  BY DEF Inv, HubsCopied
<1>3. Required(m, r) \in Nat /\ Written(m, r) \in Nat /\ Meta \in Nat
  BY Amounts, SizeAssumption
<1> QED BY <1>1, <1>2, <1>3 DEF Excess, Uncharged, Beyond

\* However preparations fail, are killed or repeated, and whatever residues
\* they leave (budget_report counts every byte below the hot root, stamped or
\* not), a rank owns no more than the hard cap and what one instance holds
\* beyond its charge, which is at most the hub's bytes beyond the snapshot
\* (copy_hub_to_rank takes the whole directory) and the view's metadata.
THEOREM Capped == Spec => []CapKept
BY Invariance, InvCap, PTL

\* The cap docs/OPERATIONS.md promises, where it holds: homes whose hubs have
\* nothing beyond the snapshot, and metadata that counts for nothing.
THEOREM HardCapped ==
  ASSUME Meta = 0, \A m \in Models : Hub[m] <= Size[m]
  PROVE  Spec => []HardCapKept
<1>1. Inv => HardCapKept
  <2> SUFFICES ASSUME Inv, NEW r \in Ranks PROVE Below(r, Models) <= Cap
    BY DEF HardCapKept
  <2>1. PICK m \in Models : Below(r, Models) <= Cap + Excess(m, r)
    BY DEF Inv, WithinCap
  <2>2. Excess(m, r) <= Uncharged(m, r)
    BY InvCap DEF CapKept
  <2>3. Uncharged(m, r) = 0
    BY SizeAssumption DEF Uncharged, Beyond, Written, Required
  <2>4. Excess(m, r) \in Nat /\ Below(r, Models) \in Nat
    <3>1. Bytes(r, m) \in Nat
      BY BytesNat DEF Inv
    <3>2. Below(r, Models) = Below(r, Models \ {m}) + Bytes(r, m)
          /\ Below(r, Models \ {m}) \in Nat
      BY Holds DEF Inv
    <3> QED BY <3>1, <3>2, ExcessCovers
  <2> QED BY <2>1, <2>2, <2>3, <2>4, LimitsAssumption
<1> QED BY <1>1, Invariance, PTL

\* All ranks are admitted before the first write; from then until the copies
\* end every rank keeps the reserve, but for what its copy wrote beyond the
\* charge, what other programs wrote since it was observed and what the
\* relays stage on the controller.
THEOREM Reserved == Spec => []ReserveKept
<1>1. Inv => ReserveKept
  <2> SUFFICES ASSUME Inv, job.pc = "copy", NEW r \in Ranks
               PROVE  FreeButOthers(r) + Staging(r) + Excess(job.model, r) >= Reserve
    BY DEF ReserveKept
  <2> DEFINE m == job.model
  <2>1. m \in Models /\ Room(r) /\ job.seen[r] \in Nat /\ other[r] \in Nat
    BY DEF Inv, TypeOK, Fits, Jobs
  <2>2. /\ Below(r, Models) = Below(r, Models \ {m}) + Bytes(r, m)
        /\ Below(r, Models \ {m}) \in Nat /\ Bytes(r, m) \in Nat
    BY <2>1, Holds DEF Inv
  <2>3. Staging(r) \in Nat
    <3>1. Total(staged, Ranks) \in Nat
      BY TotalNat, RanksAssumption DEF Inv, TypeOK
    <3> QED BY <3>1 DEF Staging
  <2>4. /\ Excess(m, r) \in Nat /\ Bytes(r, m) <= Required(m, r) + Excess(m, r)
        /\ Required(m, r) \in Nat
    BY <2>1, <2>2, ExcessCovers, Amounts
  <2>5. Below(r, Models \ {m}) + Required(m, r) + Reserve <= Disk - job.seen[r]
    BY <2>1 DEF Room, Rest
  <2> QED BY <2>1, <2>2, <2>3, <2>4, <2>5, LimitsAssumption DEF FreeButOthers, Free
<1> QED BY <1>1, Invariance, PTL
=============================================================================
