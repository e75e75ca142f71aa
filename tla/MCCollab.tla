----------------------------- MODULE MCCollab -----------------------------
(* CollabHub on small instances. *)
EXTENDS CollabHub, TLC

(* One tab per user. *)
OneTabEach == CHOOSE f \in [Conn -> User] : \A c, d \in Conn : f[c] = f[d] => c = d

(* All tabs are one user's. *)
OneUser == [c \in Conn |-> CHOOSE u \in User : TRUE]

(* Renaming tabs together with their users changes nothing; not for        *)
(* liveness.                                                               *)
Renamings == {f \in Permutations(Conn \cup User) :
                \A c \in Conn : f[c] \in Conn /\ UserOf[f[c]] = f[UserOf[c]]}
============================================================================
