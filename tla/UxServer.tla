------------------------------ MODULE UxServer ------------------------------
(***************************************************************************)
(* The unix domain socket server and its clients (socket/ux_demo).         *)
(*                                                                         *)
(* One process polls the listening socket and all clients, and serves      *)
(* those that are ready one after the other, with reads that block until   *)
(* the whole packet is there.  The clients are in a linked list whose      *)
(* nodes dead_client unlinks and frees.                                    *)
(*                                                                         *)
(* A packet is two parts, its length and its text.  A client connects at   *)
(* most once, so a node is named by its client and its memory is never     *)
(* used again: what a server does that follows a pointer to a freed node   *)
(* is not modelled, it stops there ("corrupt").                            *)
(***************************************************************************)
EXTENDS Integers, FiniteSets

CONSTANTS
  Clients,     \* client processes
  Nil,         \* the null pointer
  MaxRequests  \* bound: requests of a client

ASSUME ServerAssumption ==
  IsFiniteSet(Clients) /\ Nil \notin Clients /\ MaxRequests \in Nat

VARIABLES
  conn,      \* a client's end: "none", "open", "closed"
  backlog,   \* clients that have connected and were not accepted
  sent,      \* parts a client has sent
  taken,     \* parts of them the server has read
  replied,   \* replies a client has been sent
  head,      \* the variable clients: the first node of the list
  next, prev, \* the links of the nodes
  nodes,     \* the nodes that are allocated
  num,       \* num_clients
  pc,        \* where the server is
  cur, after, \* c and next in the loop over the clients
  ready,     \* what poll reported: clients, and Nil for the listening socket
  slipped    \* a client other than the first of the list has been removed

client == <<conn, backlog, sent, replied>>
list   == <<head, next, prev, nodes, num>>
loop   == <<pc, cur, after, ready>>
serverVars == <<client, taken, list, loop, slipped>>

Stopped == {"corrupt", "killed"}

ServerInit ==
  /\ conn = [c \in Clients |-> "none"] /\ backlog = {}
  /\ sent = [c \in Clients |-> 0] /\ taken = [c \in Clients |-> 0]
  /\ replied = [c \in Clients |-> 0]
  /\ head = Nil /\ next = [c \in Clients |-> Nil] /\ prev = [c \in Clients |-> Nil]
  /\ nodes = {} /\ num = 0
  /\ pc = "poll" /\ cur = Nil /\ after = Nil /\ ready = {}
  /\ slipped = FALSE

-----------------------------------------------------------------------------
(* The clients (ux_client.c).                                              *)

Connect(c) ==
  /\ conn[c] = "none"
  /\ conn' = [conn EXCEPT ![c] = "open"]
  /\ backlog' = backlog \cup {c}
  /\ UNCHANGED <<sent, replied, taken, list, loop, slipped>>

(* A client sends its request in two parts and waits for the reply before  *)
(* it sends the next one.                                                  *)
SendPart(c) ==
  /\ conn[c] = "open" /\ sent[c] < 2 * MaxRequests
  /\ sent[c] < 2 * (replied[c] + 1)
  /\ sent' = [sent EXCEPT ![c] = @ + 1]
  /\ UNCHANGED <<conn, backlog, replied, taken, list, loop, slipped>>

(* It exits, at any point of a request.                                    *)
Close(c) ==
  /\ conn[c] = "open"
  /\ conn' = [conn EXCEPT ![c] = "closed"]
  /\ UNCHANGED <<backlog, sent, replied, taken, list, loop, slipped>>

-----------------------------------------------------------------------------
(* process(): poll and the loops around it.                                *)

(* The nodes the loops walk over, from the one given: as long as the list  *)
(* is sound they are the allocated ones.                                   *)
Reaches[k \in 0 .. Cardinality(Clients)] ==
  IF k = 0 THEN {head} \ {Nil}
  ELSE Reaches[k - 1] \cup ({next[c] : c \in Reaches[k - 1] \cap nodes} \ {Nil})
Walked == Reaches[Cardinality(Clients)]

HasInput(c) == sent[c] > taken[c] \/ conn[c] = "closed"

(* The set up of polls follows the list, which must not lead to freed      *)
(* memory, and poll returns when somebody is ready.                        *)
Poll ==
  /\ pc = "poll"
  /\ IF Walked \subseteq nodes
       THEN /\ ready' = {c \in Walked : HasInput(c)} \cup {n \in {Nil} : backlog # {}}
            /\ ready' # {}
            /\ pc' = "scan" /\ cur' = head
       ELSE pc' = "corrupt" /\ UNCHANGED <<ready, cur>>
  /\ UNCHANGED <<client, taken, list, after, slipped>>

(* The loop over the clients: the next pointer is read before c is served, *)
(* which frees no node but c.                                              *)
ScanNode ==
  /\ pc = "scan" /\ cur \in nodes
  /\ after' = next[cur]
  /\ IF cur \in ready THEN pc' = "read" /\ UNCHANGED cur
                      ELSE cur' = next[cur] /\ UNCHANGED pc
  /\ UNCHANGED <<client, taken, list, ready, slipped>>

ScanEnd ==
  /\ pc = "scan" /\ cur = Nil
  /\ pc' = "accept"
  /\ UNCHANGED <<client, taken, list, cur, after, ready, slipped>>

Done == cur' = after /\ pc' = "scan"

(* Mutant: the caller counts the lost client as well.                      *)
UnlinkTwice(c) ==
  /\ next' = [n \in Clients |-> IF prev[c] = n THEN next[c] ELSE next[n]]
  /\ prev' = [n \in Clients |-> IF next[c] = n THEN prev[c] ELSE prev[n]]
  /\ head' = IF c = head THEN next[c] ELSE head
  /\ nodes' = nodes \ {c} /\ num' = num - 2

(* dead_client: c is unlinked and freed.                                   *)
Unlink(c) ==
  /\ next' = [n \in Clients |-> IF prev[c] = n THEN next[c] ELSE next[n]]
  /\ prev' = [n \in Clients |-> IF next[c] = n THEN prev[c] ELSE prev[n]]
  /\ head' = IF c = head THEN next[c] ELSE head
  /\ nodes' = nodes \ {c} /\ num' = num - 1

(* recv_packet: the next part, or the end of the connection; it blocks as  *)
(* long as there is neither.                                               *)
ReadPart ==
  /\ pc = "read" /\ sent[cur] > taken[cur]
  /\ taken' = [taken EXCEPT ![cur] = @ + 1]
  /\ pc' = IF taken'[cur] % 2 = 0 THEN "reply" ELSE "read"
  /\ UNCHANGED <<client, list, cur, after, ready, slipped>>

ReadEnd ==
  /\ pc = "read" /\ sent[cur] = taken[cur] /\ conn[cur] = "closed"
  /\ Unlink(cur) /\ Done
  /\ slipped' = (slipped \/ cur # head)
  /\ UNCHANGED <<client, taken, after, ready>>

(* process_request: send_packet to a client that has gone raises SIGPIPE,  *)
(* which nobody catches.                                                   *)
Reply ==
  /\ pc = "reply" /\ conn[cur] # "closed"
  /\ replied' = [replied EXCEPT ![cur] = @ + 1]
  /\ Done
  /\ UNCHANGED <<conn, backlog, sent, taken, list, after, ready, slipped>>

ReplyKills ==
  /\ pc = "reply" /\ conn[cur] = "closed"
  /\ pc' = "killed"
  /\ UNCHANGED <<client, taken, list, cur, after, ready, slipped>>

(* Mutant: the first client is not linked behind the new one.              *)
LinkAlone(c) ==
  /\ next' = [next EXCEPT ![c] = Nil] /\ prev' = [prev EXCEPT ![c] = Nil]
  /\ head' = c /\ nodes' = nodes \cup {c} /\ num' = num + 1

(* new_client: the new node has no predecessor, and the old first one is   *)
(* not told that it has one now.                                           *)
Link(c) ==
  /\ next' = [next EXCEPT ![c] = head] /\ prev' = [prev EXCEPT ![c] = Nil]
  /\ head' = c /\ nodes' = nodes \cup {c} /\ num' = num + 1

Accept ==
  /\ pc = "accept" /\ pc' = "poll"
  /\ IF Nil \in ready
       THEN \E c \in backlog : Link(c) /\ backlog' = backlog \ {c}
       ELSE UNCHANGED <<list, backlog>>
  /\ UNCHANGED <<conn, sent, taken, replied, cur, after, ready, slipped>>

Serve ==
  \/ Poll \/ ScanNode \/ ScanEnd
  \/ ReadPart \/ ReadEnd \/ Reply \/ ReplyKills \/ Accept

ServerNext ==
  Serve \/ \E c \in Clients : Connect(c) \/ SendPart(c) \/ Close(c)

(* Fairness: the server runs, and a client that has begun to send a packet *)
(* sends the rest or exits: send_packet has nothing to wait for in between.*)
HasBegun(c)  == sent[c] % 2 = 1
Finish(c)    == HasBegun(c) /\ (SendPart(c) \/ Close(c))
ServerSafety == ServerInit /\ [][ServerNext]_serverVars
ServerSpec   == ServerSafety /\ WF_serverVars(Serve)
                  /\ \A c \in Clients : WF_serverVars(Finish(c))

-----------------------------------------------------------------------------
(* Properties.                                                             *)

ServerTypeOK ==
  /\ conn \in [Clients -> {"none", "open", "closed"}] /\ backlog \subseteq Clients
  /\ sent \in [Clients -> 0 .. 2 * MaxRequests]
  /\ taken \in [Clients -> 0 .. 2 * MaxRequests]
  /\ replied \in [Clients -> 0 .. MaxRequests]
  /\ head \in Clients \cup {Nil} /\ nodes \subseteq Clients
  /\ next \in [Clients -> Clients \cup {Nil}]
  /\ prev \in [Clients -> Clients \cup {Nil}]
  /\ num \in 0 .. Cardinality(Clients)
  /\ pc \in {"poll", "scan", "read", "reply", "accept"} \cup Stopped
  /\ cur \in Clients \cup {Nil} /\ after \in Clients \cup {Nil}
  /\ ready \subseteq Clients \cup {Nil} /\ slipped \in BOOLEAN

(* As long as only the first client of the list has been removed, the list *)
(* leads to every allocated node and to no freed one, and num_clients,     *)
(* which is how large polls is made, counts them.                          *)
ListIsSound ==
  ~slipped => /\ Walked = nodes /\ num = Cardinality(nodes)
              /\ pc # "corrupt"

(* Every request is answered, unless its client leaves or the server is    *)
(* gone: no other client can keep the server from it for ever.             *)
Served ==
  \A c \in Clients, r \in 0 .. MaxRequests - 1 :
    (sent[c] = 2 * r + 2 /\ replied[c] = r)
      ~> (replied[c] > r \/ conn[c] = "closed" \/ pc \in Stopped)

(* clients is "a linked list of current clients" (ux_server.c:21).         *)
ListOfCurrentClients == Walked \subseteq nodes

=============================================================================
