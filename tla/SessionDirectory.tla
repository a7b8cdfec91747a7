--------------------------- MODULE SessionDirectory ---------------------------
(***************************************************************************)
(* What the gateway's session table and its memory amount to for a client:  *)
(* a directory of sessions with their titles.  Sessions are opened and      *)
(* deleted while the gateway is up.  An orderly stop keeps every session    *)
(* with its title, and may bring deleted ones back; only a failure loses    *)
(* sessions or titles.                                                      *)
(***************************************************************************)
CONSTANT Ids

VARIABLES
  server,     \* the gateway: "up", stopped in order ("down"), "failed"
  directory   \* the title of each session, "none" if there is no session

vars == <<server, directory>>

Titles == {"named", "id"}
Entries == [Ids -> Titles \cup {"none"}]
Empty == [id \in Ids |-> "none"]

Init == server = "down" /\ directory = Empty

Open == \E id \in Ids, title \in Titles :
  /\ server = "up" /\ directory[id] = "none"
  /\ directory' = [directory EXCEPT ![id] = title]
  /\ UNCHANGED server

Delete == \E id \in Ids :
  /\ server = "up" /\ directory[id] # "none"
  /\ directory' = [directory EXCEPT ![id] = "none"]
  /\ UNCHANGED server

\* Sessions may come back, none may go or change its title.
Stop ==
  /\ server = "up" /\ server' = "down"
  /\ directory' \in Entries
  /\ \A id \in Ids : directory[id] # "none" => directory'[id] = directory[id]

Fail == server = "up" /\ server' = "failed" /\ directory' \in Entries

\* Another program uses a session of the database.
Appear == \E id \in Ids :
  /\ server # "up" /\ directory[id] = "none"
  /\ directory' = [directory EXCEPT ![id] = "id"]
  /\ UNCHANGED server

OnlyDefault(d) == \E id \in Ids : d = [Empty EXCEPT ![id] = "named"]

\* The gateway starts with the whole directory, or with the default session
\* alone when there is none or the table cannot be read.
Start ==
  /\ server # "up" /\ server' = "up"
  /\ \/ directory # Empty /\ directory' = directory
     \/ OnlyDefault(directory')

Next == Open \/ Delete \/ Stop \/ Fail \/ Appear \/ Start

Spec == Init /\ [][Next]_vars
=============================================================================
