----------------------------- MODULE MCDirector -----------------------------
(* Small instances of BoshClient, AgentManifest and Startup for TLC.       *)
EXTENDS BoshClient, AgentManifest, Startup

Lists == INSTANCE SequencesExt

OwnerParams == Lists!SeqOf({"a", "A", ".", "-", "@", "!"}, 3)
\* validInstanceID: a letter first.
InstanceIDs == {<<c>> \o s : c \in {"a", "b", "A"},
                             s \in Lists!SeqOf({"a", "b", "A", "-", "_"}, 3)}
QuotedTexts == Lists!SeqOf({"q", "\\", "~", "x"}, 4)
CommandNames == {<<"r">>, <<"r", " ", "f">>}

\* main and Provision make what they make of a configuration and of a manifest's
\* parameters before the call to the Director goes out.
ProcessInit ==
  /\ ClientInit
  /\ \/ starting = {} /\ building = {}
     \/ building = {} /\ \E g \in Configurations : starting = {g}
     \/ starting = {} /\ \E g \in Agents : building = {g}
Made ==
  /\ starting # {} \/ building # {}
  /\ starting' = {} /\ building' = {}
  /\ UNCHANGED vars
Calling ==
  /\ starting = {} /\ building = {}
  /\ ClientNext
  /\ UNCHANGED <<starting, building>>
ProcessSpec == /\ ProcessInit /\ [][Made \/ Calling]_<<vars, starting, building>>
               /\ ClientFairness
=============================================================================
