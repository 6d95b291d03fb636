------------------------------- MODULE Users -------------------------------
(***************************************************************************)
(* The data every other module speaks of: the pb.User message as the       *)
(* server and its storage read and write it, and the filter of a list      *)
(* request (proto/protos/example.proto, server/storage.go).                *)
(*                                                                         *)
(* A field keeps the distinctions the code makes and no more: e-mail and   *)
(* phone are one field, "email" (the code treats them alike everywhere),   *)
(* and profile, tags, metadata and addresses, which are copied as they     *)
(* are, are one field, "profile".                                          *)
(***************************************************************************)
EXTENDS Integers, FiniteSets

CONSTANTS
  Ids,        \* the uint32 ids in use, the zero value among them
  Usernames,  \* user names, "" (not set) among them
  Emails,     \* contact data, "" (not set) among them
  Profiles,   \* everything else that is stored unread
  MaxTime,    \* the last reading of the clock (bound)
  Nil         \* a nil pointer; also: no entry in the map, no request

ASSUME IdsAssumption == 0 \in Ids /\ Ids \subseteq Nat /\ IsFiniteSet(Ids)
ASSUME FieldsAssumption == "" \in Usernames /\ "" \in Emails
ASSUME MaxTimeAssumption == MaxTime \in Nat \ {0}

Roles == {"GUEST", "MEMBER", "ADMIN", "MODERATOR"}
Statuses == {"INACTIVE", "ACTIVE", "SUSPENDED", "DELETED"}

NoDate == -1                        \* a nil *timestamppb.Timestamp
Dates == {NoDate} \cup 0 .. MaxTime

User == [id : Ids, role : Roles, username : Usernames, email : Emails,
         profile : Profiles, status : Statuses,
         create_date : Dates, last_login : Dates]

ASSUME NilAssumption == Nil \notin User

(* AsTime of a nil timestamp is the Unix epoch. *)
AsTime(date) == IF date = NoDate THEN 0 ELSE date

-----------------------------------------------------------------------------
(* What UpdateUserRequest.update_mask may name, and the fields it may set.  *)
MaskPaths == {"role", "username", "email", "profile", "status", "last_login"}
Paths == MaskPaths \cup {"id", "create_date"}
=============================================================================
