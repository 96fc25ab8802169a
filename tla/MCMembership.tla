---------------------------- MODULE MCMembership ----------------------------
(***************************************************************************)
(* Olga owns every team and asks Pat in.                                   *)
(***************************************************************************)
EXTENDS Membership, TLC

CONSTANTS crew, guild, olga, pat, q1, q2

OneTeam == {crew}
TwoTeams == {crew, guild}
TwoPeople == {olga, pat}
OlgaOwns == [t \in {crew, guild} |-> olga]
OlgaOwnsOne == [t \in {crew} |-> olga]
TwoSlots == {q1, q2}

\* Zero stands for the default when a team is created, 1 below; a cap of 2 is then
\* refused, until the limit is raised, and beyond the limit once it is lowered.
ZeroOrTwo == {0, 2}
JustOne == {1}

SlotSymmetry == Permutations(Slots)
=============================================================================
