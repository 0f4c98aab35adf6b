------------------------ MODULE TopologyTrust_proofs ------------------------
(***************************************************************************)
(* What discovery does to the places of the nodes, for any number of hosts *)
(* and keys, any links between them and any size up to which all groups    *)
(* are tried: a node that stays keeps its place among those that stay.     *)
(***************************************************************************)
EXTENDS TopologyTrust, FiniteSetTheorems, TLAPS

\* A list of ranks: this node first, and no node twice.
Ranking(nodes) ==
  /\ nodes \in Seq(Nodes)
  /\ \A i, j \in DOMAIN nodes : nodes[i] = nodes[j] => i = j
  /\ nodes # << >> => nodes[1] = Local

\* Every topology that a file or a running command holds has one.
TrustInv ==
  /\ Ranking(manifest.nodes)
  /\ disc.pc # "idle" => Ranking(disc.staged.nodes)
  /\ disc.pc \in {"idle", "confirm"}
  /\ enr = [pc |-> enr.pc, rows |-> enr.rows, probed |-> enr.probed,
            accept |-> enr.accept, staged |-> enr.staged]
  /\ enr.pc \in {"check", "config", "manifest"} => Ranking(enr.staged.nodes)

LEMMA NoRanks == Ranking(<< >>)
  BY DEF Ranking

\* The place of a node is where it stands, and its only one.
LEMMA RankOfAt ==
  ASSUME NEW t, Ranking(t.nodes), NEW i \in DOMAIN t.nodes
  PROVE  RankOf(t, t.nodes[i]) = i
  BY DEF RankOf, Ranking

LEMMA RankIs ==
  ASSUME NEW t, Ranking(t.nodes), NEW n \in Members(t)
  PROVE  RankOf(t, n) \in DOMAIN t.nodes /\ t.nodes[RankOf(t, n)] = n
<1>1. PICK i \in DOMAIN t.nodes : t.nodes[i] = n BY DEF Members, Range
<1> QED BY <1>1, RankOfAt

LEMMA RanksAreNat ==
  ASSUME NEW t, Ranking(t.nodes), NEW n \in Members(t)
  PROVE  Len(t.nodes) \in Nat /\ RankOf(t, n) \in 1..Len(t.nodes)
  BY RankIs DEF Ranking

\* A member of the saved topology comes after all that stand before it there,
\* and no host comes before itself.
LEMMA BeforeMember ==
  ASSUME NEW t, Ranking(t.nodes), NEW n \in Members(t), NEW m, Before(t, m, n)
  PROVE  m \in Members(t) /\ RankOf(t, m) < RankOf(t, n)
<1>1. Len(t.nodes) \in Nat /\ RankOf(t, n) \in 1..Len(t.nodes) BY RanksAreNat
<1>2. n = t.nodes[RankOf(t, n)] /\ RankOf(t, n) \in DOMAIN t.nodes BY RankIs
<1>3. t.nodes \in Seq(Nodes) BY DEF Ranking
<1>4. n \in Nat
  <2>1. t.nodes[RankOf(t, n)] \in Nodes BY <1>2, <1>3
  <2> QED BY <1>2, <2>1, NodesAssumption
<1>5. m \in Members(t) BY <1>1 DEF Before
<1>6. RankOf(t, m) \in 1..Len(t.nodes) /\ m = t.nodes[RankOf(t, m)]
  BY <1>5, RankIs, RanksAreNat
<1>7. RankOf(t, m) # RankOf(t, n) \/ ~(m < n) BY <1>2, <1>4, <1>6
<1> QED BY <1>1, <1>5, <1>6, <1>7 DEF Before

LEMMA NotBeforeItself ==
  ASSUME NEW t, Ranking(t.nodes), NEW n \in Nodes PROVE ~Before(t, n, n)
<1>1. n \in Nat BY NodesAssumption
<1>2. CASE n \in Members(t) BY <1>1, <1>2, RanksAreNat DEF Before
<1>3. CASE n \notin Members(t)
  <2>1. Len(t.nodes) \in Nat BY DEF Ranking
  <2> QED BY <1>1, <1>3, <2>1 DEF Before
<1> QED BY <1>2, <1>3

\* What a discovery takes: some hosts, each after those that come before it.
LEMMA OrderedIs ==
  ASSUME NEW t, Ranking(t.nodes), NEW answered \in Answers,
         NEW S \in SUBSET answered, NEW s \in Ordered(t, S)
  PROVE  /\ s \in Seq(Nodes \ {Local})
         /\ \A i, j \in DOMAIN s : i < j => Before(t, s[i], s[j])
         /\ \A i, j \in DOMAIN s : s[i] = s[j] => i = j
<1>1. S \subseteq Nodes \ {Local} BY DEF Answers
<1>2. Cardinality(S) \in Nat
  BY <1>1, NodesAssumption, FS_Subset, FS_CardinalityType
<1>3. s \in [1..Cardinality(S) -> S] BY DEF Ordered
<1>4. s \in Seq(Nodes \ {Local}) BY <1>1, <1>2, <1>3
<1>5. \A i, j \in DOMAIN s : i < j => Before(t, s[i], s[j]) BY DEF Ordered
<1>6. ASSUME NEW i \in DOMAIN s, NEW j \in DOMAIN s, s[i] = s[j] PROVE i = j
  <2>1. i \in Nat /\ j \in Nat BY <1>2, <1>3
  <2>2. s[i] \in Nodes BY <1>1, <1>3
  <2>3. ~(i < j) /\ ~(j < i) BY <1>5, <1>6, <2>2, NotBeforeItself
  <2> QED BY <2>1, <2>3
<1> QED BY <1>4, <1>5, <1>6

LEMMA TakenAnswered ==
  ASSUME NEW t, NEW answered, NEW S \in LargestMesh(t, answered)
  PROVE  S \in SUBSET answered
  BY DEF LargestMesh, Largest, Meshes, Greedy

\* The places of the list with this node put before the others.
LEMMA LocalFirst ==
  ASSUME NEW s \in Seq(Nodes \ {Local})
  PROVE  /\ <<Local>> \o s \in Seq(Nodes)
         /\ DOMAIN (<<Local>> \o s) = 1..(Len(s) + 1)
         /\ (<<Local>> \o s)[1] = Local
         /\ \A i \in 1..Len(s) : (<<Local>> \o s)[i + 1] = s[i]
  BY NodesAssumption DEF Local

LEMMA DiscoveredRanks ==
  ASSUME NEW s \in Seq(Nodes \ {Local}), \A i, j \in DOMAIN s : s[i] = s[j] => i = j
  PROVE  Ranking(<<Local>> \o s)
<1> DEFINE nodes == <<Local>> \o s
<1>1. /\ nodes \in Seq(Nodes) /\ DOMAIN nodes = 1..(Len(s) + 1) /\ nodes[1] = Local
      /\ \A i \in 1..Len(s) : nodes[i + 1] = s[i]
  BY LocalFirst
<1> HIDE DEF nodes
<1>2. \A i \in 1..(Len(s) + 1) : i # 1 => i - 1 \in 1..Len(s) /\ nodes[i] = s[i - 1]
  <2> SUFFICES ASSUME NEW i \in 1..(Len(s) + 1), i # 1
               PROVE  i - 1 \in 1..Len(s) /\ nodes[i] = s[i - 1]
    OBVIOUS
  <2>1. i - 1 \in 1..Len(s) /\ (i - 1) + 1 = i OBVIOUS
  <2> QED BY <1>1, <2>1
<1>3. \A i \in 1..Len(s) : s[i] # Local BY DEF Local
<1>4. ASSUME NEW i \in DOMAIN nodes, NEW j \in DOMAIN nodes, nodes[i] = nodes[j]
      PROVE  i = j
  <2>1. CASE i = 1 \/ j = 1 BY <1>1, <1>2, <1>3, <1>4, <2>1
  <2>2. CASE i # 1 /\ j # 1
    <3>1. s[i - 1] = s[j - 1] /\ i - 1 \in DOMAIN s /\ j - 1 \in DOMAIN s
      BY <1>1, <1>2, <1>4, <2>2
    <3>2. i - 1 = j - 1 BY <3>1
    <3> QED BY <1>1, <3>2
  <2> QED BY <2>1, <2>2
<1> QED BY <1>1, <1>4 DEF Ranking, nodes

\* Among the nodes of the saved and the new topology, those up to n are the same
\* in both.
LEMMA PlacesKept ==
  ASSUME NEW old, Ranking(old.nodes), NEW new,
         NEW s \in Seq(Nodes \ {Local}), new.nodes = <<Local>> \o s,
         \A i, j \in DOMAIN s : i < j => Before(old, s[i], s[j]),
         Ranking(new.nodes), NEW n \in Members(old) \cap Members(new)
  PROVE  {new.nodes[i] : i \in 1..RankOf(new, n)}
           = {old.nodes[i] : i \in 1..RankOf(old, n)} \cap Members(new)
<1>1. /\ DOMAIN new.nodes = 1..(Len(s) + 1) /\ new.nodes[1] = Local /\ Len(s) \in Nat
      /\ \A i \in 1..Len(s) : new.nodes[i + 1] = s[i] /\ s[i] # Local
  BY LocalFirst DEF Local
<1>2. /\ RankOf(new, n) \in 1..(Len(s) + 1) /\ new.nodes[RankOf(new, n)] = n
      /\ RankOf(old, n) \in 1..Len(old.nodes) /\ old.nodes[RankOf(old, n)] = n
      /\ Len(old.nodes) \in Nat /\ DOMAIN old.nodes = 1..Len(old.nodes)
  <2>1. RankOf(new, n) \in DOMAIN new.nodes /\ new.nodes[RankOf(new, n)] = n BY RankIs
  <2>2. old.nodes[RankOf(old, n)] = n BY RankIs
  <2>3. Len(old.nodes) \in Nat /\ RankOf(old, n) \in 1..Len(old.nodes) BY RanksAreNat
  <2>4. DOMAIN old.nodes = 1..Len(old.nodes) BY DEF Ranking
  <2> QED BY <1>1, <2>1, <2>2, <2>3, <2>4
<1>3. old.nodes[1] = Local BY <1>2 DEF Ranking
<1>4. \A i \in DOMAIN new.nodes : i # 1 =>
        /\ i - 1 \in 1..Len(s) /\ (i - 1) + 1 = i /\ new.nodes[i] = s[i - 1]
  BY <1>1
<1>5. \A i, j \in DOMAIN new.nodes :
        i # 1 /\ i < j => Before(old, new.nodes[i], new.nodes[j])
  BY <1>1, <1>4
<1>6. ASSUME NEW i \in 1..RankOf(new, n)
      PROVE  new.nodes[i] \in {old.nodes[j] : j \in 1..RankOf(old, n)} \cap Members(new)
  <2>1. i \in DOMAIN new.nodes BY <1>1, <1>2
  <2>2. new.nodes[i] \in Members(new) BY <2>1 DEF Members, Range
  <2>3. CASE i = RankOf(new, n) BY <1>2, <2>2, <2>3
  <2>4. CASE i = 1 BY <1>1, <1>2, <1>3, <2>2, <2>4
  <2>5. CASE i # 1 /\ i # RankOf(new, n)
    <3> DEFINE m == new.nodes[i]
    <3>1. Before(old, m, n) BY <1>1, <1>2, <1>5, <2>1, <2>5
    <3>2. m \in Members(old) /\ RankOf(old, m) < RankOf(old, n) BY <3>1, BeforeMember
    <3>3. RankOf(old, m) \in 1..Len(old.nodes) /\ old.nodes[RankOf(old, m)] = m
      BY <3>2, RankIs, RanksAreNat
    <3> QED BY <1>2, <2>2, <3>2, <3>3
  <2> QED BY <2>3, <2>4, <2>5
<1>7. ASSUME NEW j \in 1..RankOf(old, n), old.nodes[j] \in Members(new)
      PROVE  old.nodes[j] \in {new.nodes[i] : i \in 1..RankOf(new, n)}
  <2> DEFINE m == old.nodes[j]
             i == RankOf(new, m)
  <2>1. j \in DOMAIN old.nodes BY <1>2
  <2>2. m \in Members(old) /\ RankOf(old, m) = j
    BY <2>1, RankOfAt DEF Members, Range
  <2>3. i \in DOMAIN new.nodes /\ new.nodes[i] = m BY <1>7, RankIs
  <2>4. i <= RankOf(new, n)
    <3> SUFFICES ASSUME RankOf(new, n) < i PROVE FALSE BY <1>1, <1>2, <2>3
    <3>1. CASE RankOf(new, n) # 1
      <4>1. Before(old, n, m) BY <1>1, <1>2, <1>5, <2>3, <3>1
      <4>2. RankOf(old, n) < j BY <2>2, <4>1, BeforeMember
      <4> QED BY <1>2, <4>2
    <3>2. CASE RankOf(new, n) = 1
      <4>1. n = Local BY <1>1, <1>2, <3>2
      <4>2. RankOf(old, n) = 1 BY <1>2, <1>3, <4>1, RankOfAt
      <4>3. m = Local BY <1>2, <1>3, <4>2
      <4>4. i = 1 BY <1>1, <2>3, <4>3, RankOfAt
      <4> QED BY <3>2, <4>4
    <3> QED BY <3>1, <3>2
  <2> QED BY <1>1, <1>2, <2>3, <2>4
<1> QED BY <1>6, <1>7

-----------------------------------------------------------------------------
(* The commands.                                                           *)

\* What a discovery is about to offer, and that it renumbers nobody.
LEMMA DiscoverRanks ==
  ASSUME TrustInv, NEW answered \in Answers, Discover(answered)
  PROVE  /\ Ranking(disc'.staged.nodes) /\ disc'.pc = "confirm"
         /\ \A n \in Members(manifest) \cap Members(disc'.staged) :
              {disc'.staged.nodes[i] : i \in 1..RankOf(disc'.staged, n)}
                = {manifest.nodes[i] : i \in 1..RankOf(manifest, n)}
                    \cap Members(disc'.staged)
<1> DEFINE new == disc'.staged
<1>0. PICK S \in LargestMesh(manifest, answered) : \E s \in Ordered(manifest, S) :
        disc' = [Idle EXCEPT !.pc = "confirm",
                             !.staged = [nodes |-> <<Local>> \o s, keys |-> NoKeys]]
  BY DEF Discover
<1>1. PICK s \in Ordered(manifest, S) :
        disc' = [Idle EXCEPT !.pc = "confirm",
                             !.staged = [nodes |-> <<Local>> \o s, keys |-> NoKeys]]
  BY <1>0
<1>2. disc'.pc = "confirm" /\ new.nodes = <<Local>> \o s BY <1>1 DEF Idle
<1>3. Ranking(manifest.nodes) BY DEF TrustInv
<1>4. /\ s \in Seq(Nodes \ {Local})
      /\ \A i, j \in DOMAIN s : i < j => Before(manifest, s[i], s[j])
      /\ \A i, j \in DOMAIN s : s[i] = s[j] => i = j
  BY <1>0, <1>1, <1>3, OrderedIs, TakenAnswered
<1>5. Ranking(new.nodes) BY <1>2, <1>4, DiscoveredRanks
<1> HIDE DEF new
<1>6. ASSUME NEW n \in Members(manifest) \cap Members(new)
      PROVE  {new.nodes[i] : i \in 1..RankOf(new, n)}
               = {manifest.nodes[i] : i \in 1..RankOf(manifest, n)} \cap Members(new)
  BY <1>2, <1>3, <1>4, <1>5, PlacesKept
<1> QED BY <1>2, <1>5, <1>6 DEF new

LEMMA InitTrust == Init => TrustInv
  BY NoRanks DEF Init, TrustInv, NoTopology, Idle

LEMMA StepTrust == TrustInv /\ [Next]_vars => TrustInv'
<1> SUFFICES ASSUME TrustInv, [Next]_vars PROVE TrustInv'
  OBVIOUS
<1>1. ASSUME NEW answered \in Answers, Discover(answered) PROVE TrustInv'
  <2>1. manifest' = manifest /\ enr' = enr BY <1>1 DEF Discover
  <2>2. disc'.pc = "confirm" /\ Ranking(disc'.staged.nodes) BY <1>1, DiscoverRanks
  <2> QED BY <2>1, <2>2 DEF TrustInv
<1>2. CASE WriteTopology BY <1>2 DEF WriteTopology, TrustInv, Idle
<1>3. CASE Decline BY <1>3 DEF Decline, TrustInv, Idle
<1>4. ASSUME NEW accept \in BOOLEAN, Collect(accept) PROVE TrustInv'
  BY <1>4 DEF Collect, TrustInv, Idle
<1>5. CASE Probe
  <2> DEFINE rank == CHOOSE i \in Unprobed : \A j \in Unprobed : i <= j
             n == enr.rows[rank]
             more == [m \in DOMAIN enr.probed \cup {n} |->
                        IF m = n THEN key[n] ELSE enr.probed[m]]
  <2>1. manifest' = manifest /\ disc' = disc /\ enr.pc = "probe" BY <1>5 DEF Probe
  <2>2. enr' = IF busy THEN Idle ELSE [enr EXCEPT !.probed = more]
    BY <1>5 DEF Probe
  <2> HIDE DEF more
  <2>3. enr' = Idle \/ enr' = [pc |-> "probe", rows |-> enr.rows, probed |-> more,
                               accept |-> enr.accept, staged |-> enr.staged]
    BY <2>1, <2>2 DEF TrustInv
  <2> QED BY <2>1, <2>3 DEF TrustInv, Idle
<1>6. CASE Candidate
  <2>1. manifest' = manifest /\ disc' = disc BY <1>6 DEF Candidate
  <2>2. \/ enr' = Idle
        \/ enr' = [Idle EXCEPT !.pc = "check",
                     !.staged = [nodes |-> manifest.nodes, keys |-> enr.probed]]
    BY <1>6 DEF Candidate
  <2>3. enr' = Idle \/ enr' = [pc |-> "check", rows |-> << >>, probed |-> NoKeys,
                 accept |-> FALSE, staged |-> [nodes |-> manifest.nodes, keys |-> enr.probed]]
    BY <2>2 DEF Idle
  <2> QED BY <2>1, <2>3 DEF TrustInv, Idle
<1>7. CASE Check
  <2>1. manifest' = manifest /\ disc' = disc /\ enr.pc = "check" BY <1>7 DEF Check
  <2>2. enr' = Idle \/ enr' = [enr EXCEPT !.pc = "config"] BY <1>7 DEF Check
  <2> QED BY <2>1, <2>2 DEF TrustInv, Idle
<1>8. CASE WriteConfig BY <1>8 DEF WriteConfig, TrustInv
<1>9. CASE WriteManifest BY <1>9 DEF WriteManifest, TrustInv, Idle
<1>10. CASE Kill BY <1>10 DEF Kill, TrustInv, Idle
<1>11. CASE LinkChanges BY <1>11 DEF LinkChanges, TrustInv
<1>12. CASE KeyChanges BY <1>12 DEF KeyChanges, TrustInv
<1>13. CASE LaunchOrStop BY <1>13 DEF LaunchOrStop, TrustInv
<1>14. CASE UNCHANGED vars BY <1>14 DEF vars, TrustInv
<1> QED BY <1>1, <1>2, <1>3, <1>4, <1>5, <1>6, <1>7, <1>8, <1>9, <1>10, <1>11,
           <1>12, <1>13, <1>14 DEF Next, Discovery, Enrollment

\* A new discovery begins only in Discover.
LEMMA StepRanks == TrustInv /\ [Next]_vars =>
  (disc.pc = "idle" /\ disc'.pc # "idle" =>
     LET new == disc'.staged IN
     \A n \in Members(manifest) \cap Members(new) :
       {new.nodes[i] : i \in 1..RankOf(new, n)} =
       {manifest.nodes[i] : i \in 1..RankOf(manifest, n)} \cap Members(new))
<1> SUFFICES ASSUME TrustInv, [Next]_vars, disc.pc = "idle", disc'.pc # "idle"
             PROVE  \A n \in Members(manifest) \cap Members(disc'.staged) :
                      {disc'.staged.nodes[i] : i \in 1..RankOf(disc'.staged, n)}
                        = {manifest.nodes[i] : i \in 1..RankOf(manifest, n)}
                            \cap Members(disc'.staged)
  OBVIOUS
<1>1. ~WriteTopology /\ ~Decline BY DEF WriteTopology, Decline
<1>2. disc' # disc OBVIOUS
<1>3. ~Enrollment
  BY <1>2 DEF Enrollment, Collect, Probe, Candidate, Check, WriteConfig, WriteManifest
<1>4. ~Kill /\ ~LinkChanges /\ ~KeyChanges /\ ~LaunchOrStop
  BY <1>2 DEF Kill, LinkChanges, KeyChanges, LaunchOrStop
<1>5. PICK answered \in Answers : Discover(answered)
  BY <1>1, <1>2, <1>3, <1>4 DEF Next, Discovery, vars
<1> QED BY <1>5, DiscoverRanks

-----------------------------------------------------------------------------
(* The theorems.                                                           *)

\* Whatever was discovered, written or enrolled lists this node first and no
\* node twice (validate_manifest).
THEOREM Ranked == Spec => []TrustInv
<1>1. TrustInv /\ [Next]_vars => TrustInv' BY StepTrust
<1> QED BY <1>1, InitTrust, PTL DEF Spec

\* A new discovery renumbers nobody: a node that stays moves down only past the
\* nodes that left, and those that joined come after it (assemble), also when
\* there are too many hosts to try every group.
THEOREM Renumbered == Spec => RanksKept
<1>1. TrustInv /\ [Next]_vars => TrustInv' BY StepTrust
<1>2. TrustInv /\ [Next]_vars =>
        [disc.pc = "idle" /\ disc'.pc # "idle" =>
           LET new == disc'.staged IN
           \A n \in Members(manifest) \cap Members(new) :
             {new.nodes[i] : i \in 1..RankOf(new, n)} =
             {manifest.nodes[i] : i \in 1..RankOf(manifest, n)} \cap Members(new)]_vars
  BY StepRanks
<1> QED BY <1>1, <1>2, InitTrust, PTL DEF Spec, RanksKept
=============================================================================
