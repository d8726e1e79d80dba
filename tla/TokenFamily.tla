----------------------------- MODULE TokenFamily -----------------------------
(***************************************************************************)
(* What sessions with rotating refresh tokens promise, without requests,   *)
(* tables of tokens or races.                                              *)
(*                                                                         *)
(* A session has one right to continue.  The right is either in flight (a  *)
(* handler is about to mint a token from it), or stored (one token can be  *)
(* exchanged for it), or gone for good.  It is never in two places and is  *)
(* never recreated, so a session has one line of descent.  Revocation is   *)
(* permanent, and touches one session.                                     *)
(***************************************************************************)
EXTENDS Naturals, Sequences

VARIABLES
  right,    \* right[s]: where session s keeps its right to continue
  revoked   \* the revoked sessions

famvars == <<right, revoked>>

FamilyInit == right = <<>> /\ revoked = {}

\* A login opens a session.
Open == right' = Append(right, "flight") /\ UNCHANGED revoked

Move(s, from, to) ==
  /\ right[s] = from
  /\ right' = [right EXCEPT ![s] = to]
  /\ UNCHANGED revoked

Mint(s)    == Move(s, "flight", "stored")
Consume(s) == Move(s, "stored", "flight")
Drop(s)    == Move(s, "flight", "gone")

Revoke(s) == revoked' = revoked \cup {s} /\ UNCHANGED right

FamilyNext ==
  \/ Open
  \/ \E s \in DOMAIN right : Mint(s) \/ Consume(s) \/ Drop(s) \/ Revoke(s)

FamilySpec == FamilyInit /\ [][FamilyNext]_famvars
=============================================================================
