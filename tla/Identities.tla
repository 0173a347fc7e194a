----------------------------- MODULE Identities -----------------------------
(***************************************************************************)
(* The identities every module shares.  A container's ID, its short ID and *)
(* its pod name are one-to-one images of each other (podspec/id.go), so a  *)
(* container is known by its pod name.                                     *)
(***************************************************************************)
CONSTANTS
    Names,    \* references a client may use: pod names and --name values
    Creates,  \* /create requests, and the pending entries they build
    Starts,   \* /start requests; also the pods they post (by UID), the
              \* handles they open and the watchers they spawn, one each at most
    None      \* no entry, no pod, no handle, no name

ASSUME NoneIsNothing == None \notin Names \cup Creates \cup Starts
=============================================================================
