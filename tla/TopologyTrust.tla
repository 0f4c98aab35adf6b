--------------------------- MODULE TopologyTrust ---------------------------
(***************************************************************************)
(* Confirmed cluster membership and its SSH identities: discovery          *)
(* (detect-fabric.sh, topology_manifest.py) writes the topology manifest,  *)
(* enrollment (topology-ssh-trust.sh) adds the host keys and writes a      *)
(* generated SSH config beside it, as two files.  Nothing locks either     *)
(* file.  Hosts change keys, links die and processes are killed.           *)
(*                                                                         *)
(* A node's identity, alias and saved address are one value here.          *)
(***************************************************************************)
EXTENDS Naturals, FiniteSets, Sequences, Functions

CONSTANTS
  Nodes,        \* node identities, ordered as their host names; 0 is local
  Keys,         \* SSH host keys; key n is the first one of node n
  Away,         \* the nodes that may not answer or qualify
  Exhaustive,   \* number of answering hosts up to which all groups are tried
  MaxChanges,   \* bound on changes of links and keys
  MaxKills      \* bound on killed commands

ASSUME NodesAssumption == IsFiniteSet(Nodes) /\ Nodes \subseteq Nat /\ 0 \in Nodes

VARIABLES
  link,         \* link[e]: "none", "dead" (same subnet, no answer) or "up"
  key,          \* key[n]: the host key of node n
  busy,         \* managed containers run
  manifest,     \* .cluster-topology.json
  config,       \* .cluster-ssh-config: the topology it was generated from
  disc, enr,    \* the discovery and the enrollment that run
  changes, kills

vars == <<link, key, busy, manifest, config, disc, enr, changes, kills>>
world == <<link, key, changes>>

Local == 0
Edges == {e \in SUBSET Nodes : Cardinality(e) = 2}
NoKeys == << >>
NoTopology == [nodes |-> << >>, keys |-> NoKeys]
Idle == [pc |-> "idle", rows |-> << >>, probed |-> NoKeys,
         accept |-> FALSE, staged |-> NoTopology]

Members(t) == Range(t.nodes)
Trusted(t) == t.keys # NoKeys
RankOf(t, n) == CHOOSE i \in DOMAIN t.nodes : t.nodes[i] = n
EdgesOf(S) == {e \in Edges : e \subseteq S}

-----------------------------------------------------------------------------
(* Discovery.                                                              *)

\* Mutant: the saved ranks are not looked at.
BeforeByName(t, m, n) == m < n

\* Saved ranks first, then host names.
Before(t, m, n) ==
  LET rank(k) == IF k \in Members(t) THEN RankOf(t, k) ELSE Len(t.nodes) + 1
  IN rank(m) < rank(n) \/ (rank(m) = rank(n) /\ m < n)

\* The groups of hosts that are connected pair by pair, with this node too.
Meshes(answered) ==
  {S \in SUBSET answered : \A e \in EdgesOf(S \cup {Local}) : link[e] # "none"}

\* Of two groups of one size the one whose first own host comes first.
Foremost(t, S, T) == \E m \in S \ T : \A n \in T \ S : Before(t, m, n)

Largest(t, answered) ==
  {S \in Meshes(answered) : \A T \in Meshes(answered) \ {S} :
     \/ Cardinality(T) < Cardinality(S)
     \/ Cardinality(T) = Cardinality(S) /\ Foremost(t, S, T)}

\* Host after host, each one that is connected to all that were taken.
Greedy(t, answered) ==
  {S \in SUBSET answered :
     S = {n \in answered : \A m \in S \cup {Local} :
            m = Local \/ Before(t, m, n) => link[{m, n}] # "none"}}

\* The one group that becomes the cluster.
LargestMesh(t, answered) ==
  IF Cardinality(answered) <= Exhaustive THEN Largest(t, answered)
                                         ELSE Greedy(t, answered)

\* A group in the order of its candidates.
Ordered(t, S) ==
  {s \in [1..Cardinality(S) -> S] :
     \A i, j \in DOMAIN s : i < j => Before(t, s[i], s[j])}

\* The hosts that answered the probes and qualify, in order of their saved ranks; the
\* mesh; pings on every rail of every pair; no managed container on any of
\* them.  Then the operator is asked.
Discover(answered) ==
  /\ disc.pc = "idle"
  /\ \E S \in LargestMesh(manifest, answered) : \E remotes \in Ordered(manifest, S) :
       /\ \A e \in EdgesOf(S \cup {Local}) : link[e] = "up"
       /\ disc' = [Idle EXCEPT !.pc = "confirm",
                               !.staged = [nodes |-> <<Local>> \o remotes, keys |-> NoKeys]]
  /\ ~busy
  /\ UNCHANGED <<world, busy, manifest, config, enr, kills>>

\* Confirmed; the generated SSH config stays as it is.
WriteTopology ==
  /\ disc.pc = "confirm"
  /\ manifest' = disc.staged
  /\ disc' = Idle
  /\ UNCHANGED <<world, busy, config, enr, kills>>

\* The answer was no, or the command was killed.
Decline ==
  /\ disc.pc = "confirm" /\ disc' = Idle
  /\ UNCHANGED <<world, busy, manifest, config, enr, kills>>

Answers == {(Nodes \ {Local}) \ S : S \in SUBSET Away}

Discovery ==
  \/ \E answered \in Answers : Discover(answered)
  \/ WriteTopology \/ Decline

-----------------------------------------------------------------------------
(* Enrollment.                                                             *)

\* load_cluster_topology: a trusted manifest needs the config generated from it.
Stale == Trusted(manifest) /\ config # manifest
Loadable == manifest # NoTopology /\ ~Stale

\* Mutant: enrollment starts from a loaded topology.
CollectLoaded(accept) ==
  /\ enr.pc = "idle" /\ Loadable
  /\ enr' = [Idle EXCEPT !.pc = "probe", !.rows = manifest.nodes, !.accept = accept]
  /\ UNCHANGED <<world, busy, manifest, config, disc, kills>>

\* The rows are read from the manifest file itself.
Collect(accept) ==
  /\ enr.pc = "idle" /\ manifest # NoTopology
  /\ enr' = [Idle EXCEPT !.pc = "probe", !.rows = manifest.nodes, !.accept = accept]
  /\ UNCHANGED <<world, busy, manifest, config, disc, kills>>

Unprobed == {i \in DOMAIN enr.rows : enr.rows[i] \notin DOMAIN enr.probed}

\* Rank after rank: the host's keys, and that no managed container runs.
Probe ==
  /\ enr.pc = "probe" /\ Unprobed # {}
  /\ LET rank == CHOOSE i \in Unprobed : \A j \in Unprobed : i <= j
         n == enr.rows[rank]
     IN enr' = IF busy THEN Idle
               ELSE [enr EXCEPT !.probed = [m \in DOMAIN @ \cup {n} |->
                                              IF m = n THEN key[n] ELSE @[m]]]
  /\ UNCHANGED <<world, busy, manifest, config, disc, kills>>

Changed(t, keys) == Trusted(t) /\ t.keys # keys
Distinct(keys) == \A m, n \in DOMAIN keys : keys[m] = keys[n] => m = n

\* The manifest is read again; its nodes must be the probed ones, its keys
\* the probed ones unless a change is accepted, and no key shared.
Candidate ==
  LET keys == enr.probed IN
  /\ enr.pc = "probe" /\ Unprobed = {}
  /\ enr' = IF /\ Members(manifest) = DOMAIN keys
               /\ Distinct(keys)
               /\ enr.accept \/ ~Changed(manifest, keys)
            THEN [Idle EXCEPT !.pc = "check",
                              !.staged = [nodes |-> manifest.nodes, keys |-> keys]]
            ELSE Idle
  /\ UNCHANGED <<world, busy, manifest, config, disc, kills>>

\* Every endpoint of every node must show that node's staged key.
Presented(t) ==
  /\ \A n \in Members(t) : key[n] = t.keys[n]
  /\ \A e \in EdgesOf(Members(t)) : link[e] = "up"

Check ==
  /\ enr.pc = "check"
  /\ enr' = IF Presented(enr.staged) THEN [enr EXCEPT !.pc = "config"] ELSE Idle
  /\ UNCHANGED <<world, busy, manifest, config, disc, kills>>

WriteConfig ==
  /\ enr.pc = "config"
  /\ config' = enr.staged
  /\ enr' = [enr EXCEPT !.pc = "manifest"]
  /\ UNCHANGED <<world, busy, manifest, disc, kills>>

WriteManifest ==
  /\ enr.pc = "manifest"
  /\ manifest' = enr.staged
  /\ enr' = Idle
  /\ UNCHANGED <<world, busy, config, disc, kills>>

Enrollment ==
  \/ \E accept \in BOOLEAN : Collect(accept)
  \/ Probe \/ Candidate \/ Check \/ WriteConfig \/ WriteManifest

-----------------------------------------------------------------------------
(* The world.                                                              *)

Kill ==
  /\ kills < MaxKills /\ kills' = kills + 1
  /\ enr # Idle /\ enr' = Idle
  /\ UNCHANGED <<world, busy, manifest, config, disc>>

LinkChanges ==
  /\ changes < MaxChanges /\ changes' = changes + 1
  /\ \E e \in Edges, state \in {"dead", "up"} :
       link[e] # "none" /\ link[e] # state /\ link' = [link EXCEPT ![e] = state]
  /\ UNCHANGED <<key, busy, manifest, config, disc, enr, kills>>

KeyChanges ==
  /\ changes < MaxChanges /\ changes' = changes + 1
  /\ \E n \in Nodes, k \in Keys : key[n] # k /\ key' = [key EXCEPT ![n] = k]
  /\ UNCHANGED <<link, busy, manifest, config, disc, enr, kills>>

\* Launch and stop both load the topology first.
LaunchOrStop ==
  /\ Loadable /\ busy' = ~busy
  /\ UNCHANGED <<world, manifest, config, disc, enr, kills>>

Init ==
  /\ link \in [Edges -> {"none", "up"}]
  /\ \A n \in Nodes \ {Local} : link[{Local, n}] = "up"
  /\ key = [n \in Nodes |-> n]
  /\ busy = FALSE
  /\ manifest = NoTopology /\ config = NoTopology
  /\ disc = Idle /\ enr = Idle
  /\ changes = 0 /\ kills = 0

Next == Discovery \/ Enrollment \/ Kill \/ LinkChanges \/ KeyChanges \/ LaunchOrStop

Spec == Init /\ [][Next]_vars

\* An operator who starts an enrollment that accepts new keys goes through
\* with it.
Retries ==
  /\ SF_vars(Collect(TRUE))
  /\ WF_vars(Probe \/ Candidate \/ Check \/ WriteConfig \/ WriteManifest)

FairSpec == Spec /\ Retries

-----------------------------------------------------------------------------
(* Properties.                                                             *)

\* A new discovery renumbers nobody: a node that stays moves down only past
\* the nodes that left, and the nodes that joined come after it, whatever
\* their names (saved_rank_by_id in assemble).
RanksKept ==
  [][ disc.pc = "idle" /\ disc'.pc # "idle" =>
        LET new == disc'.staged IN
        \A n \in Members(manifest) \cap Members(new) :
          {new.nodes[i] : i \in 1..RankOf(new, n)} =
          {manifest.nodes[i] : i \in 1..RankOf(manifest, n)} \cap Members(new)
    ]_vars

\* A kill between the two files leaves a manifest that no command loads.
\* Where the hosts and links stay fit, repeated enrollment makes it loadable.
Fit ==
  /\ ~busy
  /\ \A e \in Edges : link[e] # "dead"
  /\ Distinct(key)
EnrollmentRepairs == <>[]Fit => []<>~Stale
=============================================================================
