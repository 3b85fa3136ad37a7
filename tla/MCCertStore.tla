---------------------------- MODULE MCCertStore ----------------------------
(* Instances of CertStore for TLC: which clients ask for what. *)
EXTENDS CertStore, TLC

CONSTANTS r1, r2, r3, r4, old,  \* four requests and the certificate that is there
          k1, k2,          \* keys
          u1, u2           \* users

\* A renewal of the old certificate, a request for its revocation, and two requests for
\* certificates of another key, one of which the client has to confirm.
MCRequests == {r1, r2, r3, r4}
MCOriginals == {old}
MCKind == r1 :> "renewal" @@ r2 :> "revocation" @@ r3 :> "initial" @@ r4 :> "direct"
MCKeyOf == r1 :> k1 @@ r2 :> k1 @@ r3 :> k2 @@ r4 :> k2 @@ old :> k1
MCUserOf == r1 :> u1 @@ r2 :> u1 @@ r3 :> u2 @@ r4 :> u2
MCTarget == r1 :> old @@ r2 :> old @@ r3 :> old @@ r4 :> old
=============================================================================
