------------------------------- MODULE Tokens -------------------------------
(***************************************************************************)
(* auth/jwt.go and interceptors/jwt_auth.go: the tokens calls are made     *)
(* with, and who may make which call. The clock ticks several times in a   *)
(* second, a date in a token has none of its fractions.                    *)
(***************************************************************************)
EXTENDS Integers

CONSTANTS
  Users,      \* whom tokens are made for
  Unwanted,   \* those of them who may not list users
  Durations,  \* for how long tokens are asked for
  Second,     \* the ticks in a second
  MaxTime,    \* bound: when the clock stops
  NoToken     \* none, or one that is malformed or signed with another key

ASSUME SecondIsPositive == Second \in Nat \ {0}
ASSUME DurationsAreNat == Durations \subseteq Nat
ASSUME NoTokenIsNone == NoToken \notin [user : Users, at : Nat, for : Durations]

VARIABLES
  now,
  token       \* the token that clients have been given

tokenVars == <<now, token>>

(* Made when, and asked for how long.                                       *)
Token == [user : Users, at : Nat, for : Durations]

TokensTypeOK == now \in Nat /\ token \in Token \cup {NoToken}

TokensInit == now = 0 /\ token = NoToken

(* Variant: rounded up. *)
NumericDateUp(t) == t + ((Second - (t % Second)) % Second)

NumericDate(t) == t - (t % Second)

(* What the claims say of the time: exp, and nbf. *)
ExpiresAt(t) == NumericDate(t.at + t.for)
NotBefore(t) == NumericDate(t.at)

(* ValidateToken takes a token of this server's key in its time.            *)
Valid(t) == t # NoToken /\ NotBefore(t) <= now /\ now < ExpiresAt(t)

(* FakeClaimsApprover lets everybody do everything, but for two users, one  *)
(* known by e-mail and one by name, who may not list users.                 *)
ValidMethod(lists, user) == ~(lists /\ user \in Unwanted)

-----------------------------------------------------------------------------
(* cmd/tokengen makes a token for anybody and any duration, zero too.       *)
GenerateToken ==
  /\ \E u \in Users, d \in Durations : token' = [user |-> u, at |-> now, for |-> d]
  /\ UNCHANGED now

(* A token of this server's key is renewed for its user, expired or not,    *)
(* for as long as the manager that renews it was made for: the server's, or *)
(* that of any program that has the key.                                    *)
RefreshToken ==
  /\ token # NoToken
  /\ \E d \in Durations : token' = [token EXCEPT !.at = now, !.for = d]
  /\ UNCHANGED now

Tick ==
  /\ now < MaxTime
  /\ now' = now + 1
  /\ UNCHANGED token
=============================================================================
