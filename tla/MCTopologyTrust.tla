-------------------------- MODULE MCTopologyTrust --------------------------
EXTENDS TopologyTrust
=============================================================================
