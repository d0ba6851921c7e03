------------------------------- MODULE Providers -------------------------------
(***************************************************************************)
(* Who may sign in, and what a row of the table users keeps of it.  An     *)
(* identity is an account at Google or Apple, or a pair of address and     *)
(* password; it has one address, for good.  Apple may keep the address to  *)
(* itself.  The address of a pair stands for what lower-casing leaves of   *)
(* what was typed.                                                         *)
(***************************************************************************)

CONSTANTS
    Identities,
    Emails,
    NoEmail,   \* the empty string
    Provider,  \* "google", "apple" or "password" for each identity
    EmailOf,   \* its address
    Null       \* no identity, no row

Keys == {"google", "apple", "password"}

\* The columns google_id, apple_id and password_hash.
Account == [email : Emails \cup {NoEmail}, blocked : BOOLEAN,
            keys : [Keys -> Identities \cup {Null}]]

ASSUME ProviderAssumption ==
    /\ NoEmail \notin Emails
    /\ Provider \in [Identities -> Keys]
    /\ EmailOf \in [Identities -> Emails \cup {NoEmail}]
    /\ \A i \in Identities : EmailOf[i] = NoEmail => Provider[i] = "apple"

ASSUME NullAssumption == Null \notin Identities \cup Account
=============================================================================
