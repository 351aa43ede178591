------------------------- MODULE MCOperatorAccounts -------------------------
(* Instances of OperatorAccounts for TLC: the bounds are the sets of ids.  *)
EXTENDS OperatorAccounts, FiniteSets, TLC

CONSTANTS
  Partners,  \* the Owners of a second installation
  Assistant  \* its Manager

Symmetry ==
  Permutations(Sessions) \cup Permutations(Changes) \cup Permutations(Links)
    \cup Permutations(Founders \ Protected)

\* Either the installation of Founders, or one with several Owners, none of
\* them protected.
Partnership == INSTANCE OperatorAccounts WITH Founders <- Partners, Hired <- {Assistant}, Protected <- {}
AccountsInit == Init \/ Partnership!Init
AccountsSpec == AccountsInit /\ [][Next]_vars

\* Nobody mistypes a password or lets a session grow old.
NoTrouble ==
  /\ \A a \in Accounts : fails[a] = 0
  /\ \A s \in Sessions : sess[s].state \in {"unused", "open", "revoked"} /\ sess[s].scope = "full"

\* Either sessions grow old and passwords are mistyped or roles change, or
\* links are used.
TroubleOrLinks ==
  \/ /\ \A l \in Links : link[l].state = "unused"
     /\ (\A a \in Accounts : fails[a] = 0) \/ \A c \in Changes : chg[c].state = "unused"
  \/ NoTrouble /\ \A c \in Changes : chg[c].state = "unused"

\* In the installation of Founders one role changes at most; in the other one
\* only roles change.
RolesOrAccess ==
  \/ /\ \A a \in Partners : life[a] = "none" /\ invite[a] = "none"
     /\ Cardinality({c \in Changes : chg[c].state # "unused"}) <= 1
     /\ TroubleOrLinks
  \/ /\ \A a \in Founders : life[a] = "none" /\ invite[a] = "none"
     /\ NoTrouble /\ \A l \in Links : link[l].state = "unused"

=============================================================================
