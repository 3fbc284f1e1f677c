------------------------------ MODULE TagTable ------------------------------
(***************************************************************************)
(* The table that ties the tag of a command to the socket it came from     *)
(* (hash/tag.c), so that the reply, which carries the tag, finds its way   *)
(* back.  Entries leave the table with the reply, when the socket is       *)
(* closed, when they are purged for their age, or when the caller that     *)
(* watches a command gives it up.                                          *)
(*                                                                         *)
(* The callers are the environment: clients that ask and hang up, the      *)
(* device that replies at any time or never.  A socket number is used      *)
(* again after a hang-up.  Ages are counted to Timeout and no further.     *)
(***************************************************************************)
EXTENDS Integers, Functions

CONSTANTS
  Tags,     \* command tags, chosen by the clients
  Sockets,  \* socket numbers, none of them zero
  Timeout,  \* TIMEOUT_CMD_TAG
  MaxTies   \* bound: entries in the table

ASSUME TagAssumption == Sockets \subseteq Nat \ {0} /\ Timeout \in Nat /\ MaxTies \in Nat

VARIABLES
  ties,     \* ptr_2_hash: a place in memory for each entry
  asked,    \* what the device has not replied to: the asker (0: it has gone), the age
  watch,    \* the age of the command a caller gives to delete_multi_cmd_tag
  reused    \* tags that were asked with again before the last use was over

tagVars == <<ties, asked, watch, reused>>

None == -1
Ages == 0 .. Timeout
Places == 1 .. MaxTies
Older(a) == IF a \in 0 .. Timeout - 1 THEN a + 1 ELSE a
NotAsked == [socket |-> None, age |-> None]

TagInit ==
  /\ ties = [i \in {} |-> NotAsked]
  /\ asked = [t \in Tags |-> NotAsked]
  /\ watch = [t \in Tags |-> None]
  /\ reused = {}

(* find_socket_in_hash: of the entries with this tag any one may be found, *)
(* for the hash turns the order of a bucket round when it grows.  Entries  *)
(* are told apart by their places alone.                                   *)
Found(t) == {i \in DOMAIN ties : ties[i].tag = t}

(* HASH_DEL of an entry the lookup returned.                               *)
Untie(t) == \E i \in Found(t) : ties' = Restrict(ties, DOMAIN ties \ {i})

(* The table with a new entry in a place of its own.                       *)
Tied(t, s) ==
  LET new == CHOOSE i \in Places : i \notin DOMAIN ties
  IN  [i \in DOMAIN ties \cup {new} |->
         IF i = new THEN [tag |-> t, socket |-> s, age |-> 0] ELSE ties[i]]

(* tie_tag_2_socket; nothing keeps a tag from being tied twice.            *)
Ask(t, s, multi) ==
  /\ DOMAIN ties # Places
  /\ ties' = Tied(t, s)
  /\ asked' = [asked EXCEPT ![t] = [socket |-> s, age |-> 0]]
  /\ watch' = IF multi THEN [watch EXCEPT ![t] = 0] ELSE watch
  /\ reused' = IF \/ Found(t) # {} \/ asked[t] # NotAsked
                  \/ watch[t] # None /\ ~multi
                 THEN reused \cup {t} ELSE reused \ {t}

(* A reply comes: get_socket_in_hash, and untie_tag_2_socket when the tag  *)
(* was found ("Verify that the key->value exists before calling").         *)
ReplyComes(t) ==
  /\ asked[t] # NotAsked
  /\ asked' = [asked EXCEPT ![t] = NotAsked]
  /\ IF Found(t) = {} THEN UNCHANGED ties ELSE Untie(t)
  /\ UNCHANGED <<watch, reused>>

(* Mutant: the loop ends with the first entry of the socket.               *)
HangUpFirst(s) ==
  /\ asked' = [t \in Tags |-> IF asked[t].socket = s
                                THEN [asked[t] EXCEPT !.socket = 0] ELSE asked[t]]
  /\ LET mine == {i \in DOMAIN ties : ties[i].socket = s}
     IN  IF mine = {} THEN UNCHANGED ties
         ELSE \E i \in mine : ties' = Restrict(ties, DOMAIN ties \ {i})
  /\ UNCHANGED <<watch, reused>>

(* A client hangs up: delete_tags_assocs_to_socket.                        *)
HangUp(s) ==
  /\ asked' = [t \in Tags |-> IF asked[t].socket = s
                                THEN [asked[t] EXCEPT !.socket = 0] ELSE asked[t]]
  /\ ties' = Restrict(ties, {i \in DOMAIN ties : ties[i].socket # s})
  /\ UNCHANGED <<watch, reused>>

Second ==
  /\ ties' = [i \in DOMAIN ties |-> [ties[i] EXCEPT !.age = Older(@)]]
  /\ asked' = [t \in Tags |-> [asked[t] EXCEPT !.age = Older(@)]]
  /\ watch' = [t \in Tags |-> Older(watch[t])]
  /\ UNCHANGED reused

(* purge_hash.                                                             *)
Purge ==
  /\ ties' = Restrict(ties, {i \in DOMAIN ties : ties[i].age < Timeout})
  /\ UNCHANGED <<asked, watch, reused>>

(* delete_multi_cmd_tag: the time is the caller's, not the entry's.        *)
DeleteMulti(t) ==
  /\ watch[t] = Timeout /\ Found(t) # {}
  /\ Untie(t)
  /\ UNCHANGED <<asked, watch, reused>>

(* The caller stops watching; that the tag was not found it is not told,   *)
(* for old_time is a parameter of its own.                                 *)
StopWatching(t) ==
  /\ watch[t] # None
  /\ watch' = [watch EXCEPT ![t] = None]
  /\ UNCHANGED <<ties, asked, reused>>

TagNext ==
  \/ \E t \in Tags, s \in Sockets, multi \in BOOLEAN : Ask(t, s, multi)
  \/ \E t \in Tags : ReplyComes(t) \/ DeleteMulti(t) \/ StopWatching(t)
  \/ \E s \in Sockets : HangUp(s)
  \/ Second \/ Purge

TagSpec == TagInit /\ [][TagNext]_tagVars

-----------------------------------------------------------------------------
(* Properties.                                                             *)

Ties == [tag : Tags, socket : Sockets, age : Ages]

TagTypeOK ==
  /\ ties \in UNION {[P -> Ties] : P \in SUBSET Places}
  /\ asked \in [Tags -> [socket : Sockets \cup {0}, age : Ages] \cup {NotAsked}]
  /\ watch \in [Tags -> Ages \cup {None}]
  /\ reused \subseteq Tags

(* For a tag with one use at a time the table tells the truth: what is     *)
(* tied is tied to the client that waits and never to one that got the     *)
(* number of a closed socket, and a client that has waited for less than   *)
(* the timeout is found.                                                   *)
TiesAreRequests ==
  \A t \in Tags \ reused :
    /\ \A i \in Found(t) : ties[i].socket = asked[t].socket
    /\ asked[t].socket \in Sockets /\ asked[t].age < Timeout => Found(t) # {}

=============================================================================
