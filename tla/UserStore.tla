----------------------------- MODULE UserStore -----------------------------
(* The users table of internal/store: one row per Clerk subject, created by  *)
(* the auth middleware on the first request that carries it. email and       *)
(* created_at are left out: no branch of the code reads them.                *)
EXTENDS Deployment

VARIABLE users        \* users[c]: the id in the row of subject c, Nil without one

UserTypeOK == users \in [Subjects -> Users \cup {Nil}]
UserInit   == users = [c \in Subjects |-> Nil]

(* gen_random_uuid: never drawn twice.                                       *)
FreshUserIDs == Users \ {users[c] : c \in Subjects}

(* Slip, for the mutation checks: clerk_subject is not unique, every request *)
(* inserts a row with an id of its own.                                      *)
UpsertedInserting(c) == FreshUserIDs

(* INSERT ... ON CONFLICT (clerk_subject) DO UPDATE ... RETURNING id: the    *)
(* ids it may return.                                                        *)
Upserted(c) == IF users[c] = Nil THEN FreshUserIDs ELSE {users[c]}

UpsertUser(c, u) == [users EXCEPT ![c] = u]

=============================================================================
