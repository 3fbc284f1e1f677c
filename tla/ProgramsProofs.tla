--------------------------- MODULE ProgramsProofs --------------------------
(***************************************************************************)
(* Proofs about the four small programs, for any numbers of clients, tags, *)
(* sockets, slots and reports: the table of tags tells the truth, the list *)
(* of the ux_demo server leads to the clients and to nothing else, the two *)
(* threads implement the queue, and the system is operational only on      *)
(* hardware that is warm.                                                  *)
(***************************************************************************)
EXTENDS MCPrograms, FiniteSetTheorems, SequenceTheorems, WellFoundedInduction, TLAPS

-----------------------------------------------------------------------------
(* The tag table.                                                          *)

(* For a tag with one use at a time there is one entry, it is as old as    *)
(* the request, and so is the age a caller that watches the tag counts.    *)
OneUse(t) ==
  /\ \A i, j \in Found(t) : i = j
  /\ \A i \in Found(t) : ties[i].socket = asked[t].socket /\ ties[i].age = asked[t].age
  /\ asked[t].socket \in Sockets /\ asked[t].age < Timeout => Found(t) # {}
  /\ watch[t] # None /\ asked[t] # NotAsked => watch[t] = asked[t].age

TagInv == TagTypeOK /\ \A t \in Tags \ reused : OneUse(t)

LEMMA RestrictTypes ==
  ASSUME TagTypeOK, NEW P \in SUBSET (DOMAIN ties)
  PROVE  /\ Restrict(ties, P) \in UNION {[Q -> Ties] : Q \in SUBSET Places}
         /\ DOMAIN Restrict(ties, P) = P
         /\ \A i \in P : Restrict(ties, P)[i] = ties[i]
<1>1. PICK Q \in SUBSET Places : ties \in [Q -> Ties]
  BY DEF TagTypeOK
<1>2. Restrict(ties, P) \in [P -> Ties] /\ P \in SUBSET Places
  BY <1>1 DEF Restrict
<1> QED BY <1>2 DEF Restrict

LEMMA TieTypes ==
  ASSUME TagTypeOK, NEW i \in DOMAIN ties
  PROVE  /\ i \in Places /\ ties[i] \in Ties /\ ties[i].tag \in Tags
         /\ ties[i].socket \in Sockets /\ ties[i].age \in Ages
<1>1. i \in Places /\ ties[i] \in Ties
  BY DEF TagTypeOK
<1> QED BY <1>1 DEF Ties

LEMMA TiedTypes ==
  ASSUME TagTypeOK, NEW t \in Tags, NEW s \in Sockets, DOMAIN ties # Places
  PROVE  /\ Tied(t, s) \in UNION {[Q -> Ties] : Q \in SUBSET Places}
         /\ \E new \in Places \ DOMAIN ties :
              /\ DOMAIN Tied(t, s) = DOMAIN ties \cup {new}
              /\ Tied(t, s)[new] = [tag |-> t, socket |-> s, age |-> 0]
              /\ \A i \in DOMAIN ties : Tied(t, s)[i] = ties[i]
<1> DEFINE new == CHOOSE i \in Places : i \notin DOMAIN ties
           tie == [tag |-> t, socket |-> s, age |-> 0]
<1>1. PICK Q \in SUBSET Places : ties \in [Q -> Ties]
  BY DEF TagTypeOK
<1>2. new \in Places /\ new \notin DOMAIN ties
  BY <1>1
<1>3. tie \in Ties
  BY TagAssumption DEF Ties, Ages
<1> HIDE DEF new, tie
<1>4. Tied(t, s) = [i \in DOMAIN ties \cup {new} |-> IF i = new THEN tie ELSE ties[i]]
  BY DEF Tied, new, tie
<1>5. Tied(t, s) \in [Q \cup {new} -> Ties]
  BY <1>1, <1>3, <1>4
<1>6. /\ DOMAIN Tied(t, s) = DOMAIN ties \cup {new} /\ Tied(t, s)[new] = tie
      /\ \A i \in DOMAIN ties : Tied(t, s)[i] = ties[i]
  BY <1>2, <1>4
<1> QED BY <1>2, <1>5, <1>6 DEF tie

LEMMA OlderAges == ASSUME NEW a \in Ages \cup {None}
                   PROVE  /\ Older(a) \in Ages \cup {None} /\ (Older(a) = None <=> a = None)
                          /\ a \in Ages => Older(a) \in Ages
                          /\ a \in Ages /\ Older(a) < Timeout => a < Timeout
BY TagAssumption DEF Older, Ages, None

LEMMA TagTypesStay == TagTypeOK /\ [TagNext]_tagVars => TagTypeOK'
<1> SUFFICES ASSUME TagTypeOK, [TagNext]_tagVars PROVE TagTypeOK'
  OBVIOUS
<1> USE TagAssumption
<1>0. /\ asked \in [Tags -> [socket : Sockets \cup {0}, age : Ages] \cup {NotAsked}]
      /\ watch \in [Tags -> Ages \cup {None}] /\ reused \subseteq Tags
  BY DEF TagTypeOK
<1>1. ASSUME NEW t \in Tags, Untie(t) PROVE ties' \in UNION {[Q -> Ties] : Q \in SUBSET Places}
  BY <1>1, RestrictTypes DEF Untie
<1>2. ASSUME NEW t \in Tags, NEW s \in Sockets, NEW multi \in BOOLEAN, Ask(t, s, multi)
      PROVE  TagTypeOK'
  <2>1. ties' \in UNION {[Q -> Ties] : Q \in SUBSET Places}
    BY <1>2, TiedTypes DEF Ask
  <2>2. asked' \in [Tags -> [socket : Sockets \cup {0}, age : Ages] \cup {NotAsked}]
    BY <1>0, <1>2 DEF Ask, Ages
  <2>3. watch' \in [Tags -> Ages \cup {None}]
    BY <1>0, <1>2 DEF Ask, Ages
  <2>4. reused' \subseteq Tags
    BY <1>0, <1>2 DEF Ask
  <2> QED BY <2>1, <2>2, <2>3, <2>4 DEF TagTypeOK
<1>3. ASSUME NEW t \in Tags, ReplyComes(t) PROVE TagTypeOK'
  BY <1>0, <1>1, <1>3 DEF ReplyComes, TagTypeOK
<1>4. ASSUME NEW t \in Tags, DeleteMulti(t) PROVE TagTypeOK'
  BY <1>1, <1>4 DEF DeleteMulti, TagTypeOK
<1>5. ASSUME NEW t \in Tags, StopWatching(t) PROVE TagTypeOK'
  BY <1>5 DEF StopWatching, TagTypeOK
<1>6. ASSUME NEW s \in Sockets, HangUp(s) PROVE TagTypeOK'
  <2>1. ties' \in UNION {[Q -> Ties] : Q \in SUBSET Places}
    BY <1>6, RestrictTypes DEF HangUp
  <2>2. asked' \in [Tags -> [socket : Sockets \cup {0}, age : Ages] \cup {NotAsked}]
    <3> SUFFICES ASSUME NEW t \in Tags, asked[t].socket = s
                 PROVE  [asked[t] EXCEPT !.socket = 0] \in [socket : Sockets \cup {0}, age : Ages]
      BY <1>0, <1>6 DEF HangUp
    <3>1. asked[t] # NotAsked
      BY DEF NotAsked, None
    <3> QED BY <1>0, <3>1
  <2> QED BY <1>6, <2>1, <2>2 DEF HangUp, TagTypeOK
<1>7. CASE Second
  <2>1. ASSUME NEW i \in DOMAIN ties PROVE [ties[i] EXCEPT !.age = Older(@)] \in Ties
    BY TieTypes, OlderAges DEF Ties
  <2>2. PICK Q \in SUBSET Places : ties \in [Q -> Ties]
    BY DEF TagTypeOK
  <2>3. ties' \in [Q -> Ties]
    BY <1>7, <2>1, <2>2 DEF Second
  <2>4. ASSUME NEW t \in Tags
        PROVE  [asked[t] EXCEPT !.age = Older(@)]
                  \in [socket : Sockets \cup {0}, age : Ages] \cup {NotAsked}
    <3>1. CASE asked[t] = NotAsked
      BY <3>1, OlderAges DEF NotAsked
    <3>2. CASE asked[t] \in [socket : Sockets \cup {0}, age : Ages]
      BY <3>2, OlderAges
    <3> QED BY <1>0, <3>1, <3>2
  <2>5. asked' \in [Tags -> [socket : Sockets \cup {0}, age : Ages] \cup {NotAsked}]
    BY <1>7, <2>4 DEF Second
  <2>6. watch' \in [Tags -> Ages \cup {None}]
    BY <1>0, <1>7, OlderAges DEF Second
  <2> QED BY <1>0, <1>7, <2>3, <2>5, <2>6 DEF Second, TagTypeOK
<1>8. CASE Purge
  BY <1>8, RestrictTypes DEF Purge, TagTypeOK
<1>9. CASE UNCHANGED tagVars
  BY <1>9 DEF tagVars, TagTypeOK
<1> QED BY <1>2, <1>3, <1>4, <1>5, <1>6, <1>7, <1>8, <1>9 DEF TagNext

(* An entry leaves the table, or several do.                               *)
LEMMA FoundInRestriction ==
  ASSUME TagTypeOK, NEW P \in SUBSET (DOMAIN ties), ties' = Restrict(ties, P), NEW t
  PROVE  /\ Found(t)' = Found(t) \cap P
         /\ \A i \in Found(t)' : ties'[i] = ties[i]
<1>1. DOMAIN ties' = P /\ \A i \in P : ties'[i] = ties[i]
  BY RestrictTypes
<1> QED BY <1>1 DEF Found

(* An entry that is tied is in no other tag's way.                         *)
LEMMA FoundOthers ==
  ASSUME TagTypeOK, NEW t \in Tags, NEW u \in Tags, u # t, Untie(t)
  PROVE  /\ Found(u)' = Found(u) /\ \A i \in Found(u) : ties'[i] = ties[i]
<1>1. PICK i \in Found(t) : ties' = Restrict(ties, DOMAIN ties \ {i})
  BY DEF Untie
<1>2. Found(u)' = Found(u) \cap (DOMAIN ties \ {i})
      /\ \A j \in Found(u)' : ties'[j] = ties[j]
  BY <1>1, FoundInRestriction
<1>3. i \notin Found(u) /\ Found(u) \subseteq DOMAIN ties
  BY DEF Found
<1> QED BY <1>2, <1>3

LEMMA TieHasAsker ==
  ASSUME TagTypeOK, NEW t \in Tags, OneUse(t), Found(t) # {}
  PROVE  asked[t] # NotAsked /\ asked[t].socket \in Sockets
<1>1. PICK i \in DOMAIN ties : i \in Found(t)
  BY DEF Found
<1>2. ties[i].socket \in Sockets /\ ties[i].socket = asked[t].socket
  BY <1>1, TieTypes DEF OneUse
<1> QED BY <1>2, TagAssumption DEF NotAsked, None

(* What OneUse says of a tag depends on its own entries alone.             *)
LEMMA OneUseKept ==
  ASSUME NEW t \in Tags, OneUse(t), Found(t)' = Found(t),
         \A i \in Found(t) : ties'[i] = ties[i],
         asked'[t] = asked[t], watch'[t] \in {watch[t], None}
  PROVE  OneUse(t)'
BY DEF OneUse

LEMMA OneUseStays ==
  ASSUME TagInv, [TagNext]_tagVars, NEW t \in Tags, t \notin reused'
  PROVE  OneUse(t)'
<1> USE TagAssumption
<1>0. /\ asked \in [Tags -> [socket : Sockets \cup {0}, age : Ages] \cup {NotAsked}]
      /\ watch \in [Tags -> Ages \cup {None}] /\ TagTypeOK
      /\ t \notin reused => OneUse(t)
  BY DEF TagTypeOK, TagInv
<1>1. ASSUME NEW u \in Tags, NEW s \in Sockets, NEW multi \in BOOLEAN, Ask(u, s, multi)
      PROVE  OneUse(t)'
  <2>1. PICK new \in Places \ DOMAIN ties :
          /\ DOMAIN ties' = DOMAIN ties \cup {new}
          /\ ties'[new] = [tag |-> u, socket |-> s, age |-> 0]
          /\ \A i \in DOMAIN ties : ties'[i] = ties[i]
    <3>1. DOMAIN ties # Places /\ ties' = Tied(u, s)
      BY <1>1 DEF Ask
    <3>2. PICK new \in Places \ DOMAIN ties :
            /\ DOMAIN Tied(u, s) = DOMAIN ties \cup {new}
            /\ Tied(u, s)[new] = [tag |-> u, socket |-> s, age |-> 0]
            /\ \A i \in DOMAIN ties : Tied(u, s)[i] = ties[i]
      BY <1>0, <3>1, TiedTypes
    <3> QED BY <3>1, <3>2
  <2>2. CASE u = t
    <3>1. Found(t) = {} /\ asked[t] = NotAsked /\ (watch[t] = None \/ multi)
      BY <1>1, <2>2 DEF Ask
    <3>2. asked'[t] = [socket |-> s, age |-> 0] /\ watch'[t] \in {0, None}
      BY <1>0, <1>1, <2>2, <3>1 DEF Ask
    <3>3. Found(t)' = {new}
      BY <2>1, <2>2, <3>1 DEF Found
    <3> QED BY <2>1, <2>2, <3>2, <3>3 DEF OneUse
  <2>3. CASE u # t
    <3>1. t \notin reused /\ asked'[t] = asked[t] /\ watch'[t] = watch[t]
      BY <1>0, <1>1, <2>3 DEF Ask
    <3>2. Found(t)' = Found(t) /\ \A i \in Found(t) : ties'[i] = ties[i]
      BY <2>1, <2>3 DEF Found
    <3> QED BY <1>0, <3>1, <3>2, OneUseKept
  <2> QED BY <2>2, <2>3
<1>2. ASSUME NEW u \in Tags, ReplyComes(u) PROVE OneUse(t)'
  <2>1. t \notin reused /\ OneUse(t) /\ UNCHANGED watch
        /\ asked' = [asked EXCEPT ![u] = NotAsked]
    BY <1>0, <1>2 DEF ReplyComes
  <2>2. CASE u = t
    <3>1. asked'[t] = NotAsked
      BY <1>0, <2>1, <2>2
    <3>2. Found(t)' = {}
      <4>1. CASE Found(t) = {}
        BY <1>2, <2>2, <4>1 DEF ReplyComes, Found
      <4>2. CASE Found(t) # {}
        <5>1. PICK i \in Found(t) : ties' = Restrict(ties, DOMAIN ties \ {i})
          BY <1>2, <2>2, <4>2 DEF ReplyComes, Untie
        <5>2. Found(t)' = Found(t) \cap (DOMAIN ties \ {i})
          BY <1>0, <5>1, FoundInRestriction
        <5> QED BY <2>1, <5>2 DEF OneUse
      <4> QED BY <4>1, <4>2
    <3> QED BY <3>1, <3>2 DEF OneUse, NotAsked, None
  <2>3. CASE u # t
    <3>1. asked'[t] = asked[t]
      BY <1>0, <2>1, <2>3
    <3>2. Found(t)' = Found(t) /\ \A i \in Found(t) : ties'[i] = ties[i]
      BY <1>0, <1>2, <2>3, FoundOthers DEF ReplyComes, Found
    <3> QED BY <2>1, <3>1, <3>2, OneUseKept
  <2> QED BY <2>2, <2>3
<1>3. ASSUME NEW u \in Tags, DeleteMulti(u) PROVE OneUse(t)'
  <2>1. t \notin reused /\ OneUse(t) /\ UNCHANGED <<asked, watch>> /\ Untie(u)
    BY <1>0, <1>3 DEF DeleteMulti
  <2>2. CASE u = t
    <3>1. PICK i \in Found(t) : ties' = Restrict(ties, DOMAIN ties \ {i})
      BY <2>1, <2>2 DEF Untie
    <3>2. Found(t)' = {}
      <4>1. Found(t)' = Found(t) \cap (DOMAIN ties \ {i})
        BY <1>0, <3>1, FoundInRestriction
      <4> QED BY <2>1, <4>1 DEF OneUse
    <3>3. asked[t].age = Timeout
      BY <1>0, <1>3, <2>1, <2>2, TieHasAsker DEF DeleteMulti, OneUse, None
    <3> QED BY <2>1, <3>2, <3>3 DEF OneUse
  <2>3. CASE u # t
    BY <1>0, <2>1, <2>3, FoundOthers, OneUseKept
  <2> QED BY <2>2, <2>3
<1>4. ASSUME NEW u \in Tags, StopWatching(u) PROVE OneUse(t)'
  <2>1. UNCHANGED <<ties, asked, reused>> /\ watch'[t] \in {watch[t], None}
    BY <1>0, <1>4 DEF StopWatching
  <2> QED BY <1>0, <2>1, OneUseKept DEF Found
<1>5. ASSUME NEW s \in Sockets, HangUp(s) PROVE OneUse(t)'
  <2> DEFINE P == {i \in DOMAIN ties : ties[i].socket # s}
  <2>1. /\ t \notin reused /\ OneUse(t) /\ UNCHANGED watch /\ ties' = Restrict(ties, P)
        /\ asked'[t] = IF asked[t].socket = s THEN [asked[t] EXCEPT !.socket = 0] ELSE asked[t]
    BY <1>0, <1>5 DEF HangUp
  <2>2. Found(t)' = Found(t) \cap P /\ \A i \in Found(t)' : ties'[i] = ties[i]
    BY <1>0, <2>1, FoundInRestriction
  <2>3. CASE asked[t].socket = s
    <3>1. asked[t] # NotAsked
      BY <2>3 DEF NotAsked, None
    <3>2. asked[t] \in [socket : Sockets \cup {0}, age : Ages]
      BY <1>0, <3>1
    <3>3. asked'[t].socket = 0 /\ asked'[t].age = asked[t].age
      BY <2>1, <2>3, <3>2
    <3>4. Found(t)' = {}
      BY <2>1, <2>2, <2>3 DEF OneUse
    <3> QED BY <2>1, <3>1, <3>3, <3>4 DEF OneUse
  <2>4. CASE asked[t].socket # s
    <3>1. Found(t)' = Found(t)
      BY <2>1, <2>2, <2>4 DEF OneUse, Found
    <3> QED BY <2>1, <2>2, <2>4, <3>1, OneUseKept
  <2> QED BY <2>3, <2>4
<1>6. CASE Second
  <2>1. t \notin reused /\ OneUse(t) /\ asked'[t] = [asked[t] EXCEPT !.age = Older(@)]
        /\ watch'[t] = Older(watch[t])
    BY <1>0, <1>6 DEF Second
  <2>2. ASSUME NEW i \in DOMAIN ties
        PROVE  /\ ties'[i].tag = ties[i].tag /\ ties'[i].socket = ties[i].socket
               /\ ties'[i].age = Older(ties[i].age)
    <3>1. ties'[i] = [ties[i] EXCEPT !.age = Older(@)] /\ ties[i] \in Ties
      BY <1>0, <1>6, TieTypes DEF Second
    <3> QED BY <3>1 DEF Ties
  <2>3. Found(t)' = Found(t)
    BY <1>6, <2>2 DEF Found, Second
  <2>4. asked'[t].socket = asked[t].socket /\ asked'[t].age = Older(asked[t].age)
        /\ asked[t].age \in Ages \cup {None}
    BY <1>0, <2>1 DEF NotAsked
  <2>5. asked'[t] # NotAsked => asked[t] # NotAsked
    BY <2>1, OlderAges DEF NotAsked
  <2>6. asked'[t].socket \in Sockets /\ asked'[t].age < Timeout =>
          asked[t].socket \in Sockets /\ asked[t].age < Timeout
    <3>1. CASE asked[t].age \in Ages
      BY <2>4, <3>1, OlderAges
    <3>2. CASE asked[t] = NotAsked
      BY <2>4, <3>2 DEF NotAsked, None
    <3> QED BY <1>0, <3>1, <3>2
  <2>7. watch'[t] # None => watch[t] # None
    BY <1>0, <2>1, OlderAges
  <2>8. \A i \in Found(t) : ties'[i].socket = asked'[t].socket /\ ties'[i].age = asked'[t].age
    BY <2>1, <2>2, <2>4 DEF OneUse, Found
  <2> QED BY <2>1, <2>3, <2>4, <2>5, <2>6, <2>7, <2>8 DEF OneUse
<1>7. CASE Purge
  <2> DEFINE P == {i \in DOMAIN ties : ties[i].age < Timeout}
  <2>1. t \notin reused /\ OneUse(t) /\ UNCHANGED <<asked, watch>> /\ ties' = Restrict(ties, P)
    BY <1>0, <1>7 DEF Purge
  <2>2. Found(t)' = Found(t) \cap P /\ \A i \in Found(t)' : ties'[i] = ties[i]
    BY <1>0, <2>1, FoundInRestriction
  <2>3. CASE asked[t].age < Timeout
    <3>1. Found(t)' = Found(t)
      BY <2>1, <2>2, <2>3 DEF OneUse, Found
    <3> QED BY <2>1, <2>2, <3>1, OneUseKept
  <2>4. CASE ~(asked[t].age < Timeout)
    BY <2>1, <2>2, <2>4 DEF OneUse
  <2> QED BY <2>3, <2>4
<1>8. CASE UNCHANGED tagVars
  BY <1>0, <1>8, OneUseKept DEF tagVars, Found
<1> QED BY <1>1, <1>2, <1>3, <1>4, <1>5, <1>6, <1>7, <1>8 DEF TagNext

LEMMA TagInitially == TagInit => TagInv
<1> SUFFICES ASSUME TagInit PROVE TagInv
  OBVIOUS
<1>1. ties \in [{} -> Ties] /\ DOMAIN ties = {}
  BY DEF TagInit
<1>2. TagTypeOK
  BY <1>1 DEF TagInit, TagTypeOK
<1>3. \A t \in Tags : Found(t) = {}
  BY <1>1 DEF Found
<1> QED BY <1>2, <1>3, TagAssumption DEF TagInit, TagInv, OneUse, NotAsked, None

LEMMA TagInvStays == TagInv /\ [TagNext]_tagVars => TagInv'
BY TagTypesStay, OneUseStays DEF TagInv

(* A reply finds the client that waits for it and never one that got the   *)
(* number of a closed socket, and delete_multi_cmd_tag, which looks at a   *)
(* time the caller keeps, unties no entry that is younger.                 *)
THEOREM TiesAreTrue == TagSpec => []TiesAreRequests
<1>1. TagInv => TiesAreRequests
  BY DEF TagInv, OneUse, TiesAreRequests
<1> QED BY <1>1, TagInitially, TagInvStays, PTL DEF TagSpec

-----------------------------------------------------------------------------
(* Reports under way: a sequence that grows at one end and shrinks at the  *)
(* other.                                                                  *)
LEMMA BoundedIs ==
  ASSUME NEW S, NEW n \in Nat, NEW s
  PROVE  s \in BoundedSeq(S, n) <=> s \in Seq(S) /\ Len(s) <= n
<1>1. ASSUME s \in BoundedSeq(S, n) PROVE s \in Seq(S) /\ Len(s) <= n
  <2>1. PICK m \in 0 .. n : s \in [1 .. m -> S]
    BY <1>1 DEF BoundedSeq, SeqOf
  <2>2. \A i \in 1 .. m : s[i] \in S
    BY <2>1
  <2>3. s = [i \in 1 .. m |-> s[i]]
    BY <2>1
  <2>4. m \in Nat /\ m <= n
    OBVIOUS
  <2>5. [i \in 1 .. m |-> s[i]] \in Seq(S) /\ Len([i \in 1 .. m |-> s[i]]) = m
    BY <2>2, <2>4
  <2> QED BY <2>3, <2>4, <2>5
<1>2. ASSUME s \in Seq(S), Len(s) <= n PROVE s \in BoundedSeq(S, n)
  <2>1. Len(s) \in 0 .. n /\ s \in [1 .. Len(s) -> S]
    BY <1>2, LenProperties
  <2> QED BY <2>1 DEF BoundedSeq, SeqOf
<1> QED BY <1>1, <1>2

LEMMA ContainsAppend ==
  ASSUME NEW S, NEW s \in Seq(S), NEW c \in S, NEW e
  PROVE  Contains(Append(s, c), e) <=> Contains(s, e) \/ c = e
<1>1. /\ Len(s) \in Nat /\ Len(Append(s, c)) = Len(s) + 1
      /\ \A i \in 1 .. Len(s) : Append(s, c)[i] = s[i]
      /\ Append(s, c)[Len(s) + 1] = c
  BY LenProperties, AppendProperties
<1> QED BY <1>1 DEF Contains

LEMMA ContainsTail ==
  ASSUME NEW S, NEW s \in Seq(S), s # << >>, NEW e
  PROVE  Contains(s, e) <=> Head(s) = e \/ Contains(Tail(s), e)
<1>1. /\ Len(s) \in Nat \ {0} /\ Len(Tail(s)) = Len(s) - 1 /\ Head(s) = s[1]
      /\ \A i \in 1 .. Len(s) - 1 : Tail(s)[i] = s[i + 1]
  BY LenProperties, HeadTailProperties, EmptySeq
<1>2. ASSUME NEW i \in 1 .. Len(s), s[i] = e, Head(s) # e PROVE Contains(Tail(s), e)
  <2>1. i # 1 /\ i - 1 \in 1 .. Len(s) - 1
    BY <1>1, <1>2
  <2>2. Tail(s)[i - 1] = e
    BY <1>1, <1>2, <2>1
  <2> QED BY <1>1, <2>1, <2>2 DEF Contains
<1>3. ASSUME NEW i \in 1 .. Len(s) - 1, Tail(s)[i] = e PROVE Contains(s, e)
  <2>1. i + 1 \in 1 .. Len(s) /\ s[i + 1] = e
    BY <1>1, <1>3
  <2> QED BY <2>1 DEF Contains
<1>4. Head(s) = e => Contains(s, e)
  BY <1>1 DEF Contains
<1> QED BY <1>1, <1>2, <1>3, <1>4 DEF Contains

-----------------------------------------------------------------------------
(* The system state: which arrows there are.                               *)
LEMMA ToOperational ==
  ASSUME NEW s, NEW c, "OPERATIONAL" \in Targets(s, c)
  PROVE  s = "WARMUP" /\ c = "HARDWARE_READY"
<1>1. PICK a \in Arrows \cup Failures : a[1] = s /\ a[2] = c /\ a[3] = "OPERATIONAL"
  BY DEF Targets, Leaving
<1>2. a \in Arrows => s = "WARMUP" /\ c = "HARDWARE_READY"
  BY <1>1 DEF Arrows
<1>3. a \notin Failures
  BY <1>1 DEF Failures
<1> QED BY <1>1, <1>2, <1>3

LEMMA ToWarmup ==
  ASSUME NEW s, NEW c, "WARMUP" \in Targets(s, c)
  PROVE  s \in {"STANDBY", "OPERATIONAL"} /\ c = "SET_CONFIGURATION"
<1>1. PICK a \in Arrows \cup Failures : a[1] = s /\ a[2] = c /\ a[3] = "WARMUP"
  BY DEF Targets, Leaving
<1>2. a \in Arrows => s \in {"STANDBY", "OPERATIONAL"} /\ c = "SET_CONFIGURATION"
  BY <1>1 DEF Arrows
<1>3. a \notin Failures
  BY <1>1 DEF Failures
<1> QED BY <1>1, <1>2, <1>3

LEMMA ToState ==
  ASSUME NEW s, NEW c, NEW t \in Targets(s, c)
  PROVE  t \in Working \cup {"FAILED", "REDUCED"}
<1>1. PICK a \in Arrows \cup Failures : a[3] = t
  BY DEF Targets, Leaving
<1>2. a \in Arrows => t \in Working \cup {"FAILED"}
  BY <1>1 DEF Arrows, Working
<1>3. a \in Failures => t \in {"FAILED", "REDUCED"}
  BY <1>1 DEF Failures
<1> QED BY <1>1, <1>2, <1>3

(* In a state that works, a failure of the hardware is expected, and in    *)
(* WARMUP its being ready is, so that no report is ignored there.          *)
LEMMA ReportsTaken ==
  /\ \A s \in Working : Targets(s, "CS_HARDWARE_FAILURE") # {}
  /\ Targets("WARMUP", "HARDWARE_READY") # {}
<1>1. ASSUME NEW s \in Working PROVE "FAILED" \in Targets(s, "CS_HARDWARE_FAILURE")
  <2>1. <<s, "CS_HARDWARE_FAILURE", "FAILED">> \in Leaving(s, "CS_HARDWARE_FAILURE")
    BY DEF Leaving, Failures
  <2> QED BY <2>1 DEF Targets
<1>2. <<"WARMUP", "HARDWARE_READY", "OPERATIONAL">> \in Leaving("WARMUP", "HARDWARE_READY")
  BY DEF Leaving, Arrows
<1> QED BY <1>1, <1>2 DEF Targets

(* Where a condition leads.                                                *)
LEMMA ChangeLeads ==
  ASSUME NEW c, Change(c), system_state \in Working \cup {"FAILED", "REDUCED"}
  PROVE  /\ system_state' \in Working \cup {"FAILED", "REDUCED"}
         /\ Targets(system_state, c) = {} => system_state' = system_state
         /\ Targets(system_state, c) # {} => system_state' \in Targets(system_state, c)
BY ToState DEF Change

-----------------------------------------------------------------------------
(* The failure of the hardware is reported once it has failed, and in      *)
(* WARMUP the answer under way is the one to the order that led there.     *)
FailureIsTrue == Contains(reports, "CS_HARDWARE_FAILURE") => hardware = "failed"

WarmupIsAnswered ==
  system_state = "WARMUP" /\ ~overtaken =>
    /\ hardware \in {"warming", "warm", "failed", "silent"}
    /\ reports # << >> /\ Head(reports) = "HARDWARE_READY"
         => hardware = "warm" \/ Contains(Tail(reports), "CS_HARDWARE_FAILURE")

StateInv == StateTypeOK /\ FailureIsTrue /\ WarmupIsAnswered /\ OperationalIsWarm

LEMMA StateTypes ==
  ASSUME StateTypeOK
  PROVE  /\ reports \in Seq(Conditions) /\ Len(reports) <= MaxReports
         /\ reports # << >> => Head(reports) \in Conditions /\ Tail(reports) \in Seq(Conditions)
                               /\ Len(Tail(reports)) <= MaxReports
<1>1. reports \in Seq(Conditions) /\ Len(reports) <= MaxReports
  BY StateAssumption, BoundedIs DEF StateTypeOK
<1> QED BY <1>1, StateAssumption, HeadTailProperties, LenProperties

LEMMA StateInvSame ==
  ASSUME StateInv, UNCHANGED <<hardware, reports, overtaken>>,
         system_state' \in Working \cup {"FAILED", "REDUCED"},
         system_state' \in {"WARMUP", "OPERATIONAL"} => system_state' = system_state,
         background_state' \in {"NO_COLLECTING", "OFFSET_COLLECTING"}
  PROVE  StateInv'
<1>1. StateTypeOK'
  BY DEF StateInv, StateTypeOK
<1> QED BY <1>1 DEF StateInv, FailureIsTrue, WarmupIsAnswered, OperationalIsWarm

LEMMA OrderKeeps ==
  ASSUME StateInv, NEW c, NEW work, Order(c, work),
         <<c, work>> \in {<<"SET_CONFIGURATION", "warming">>, <<"SET_STANDBY", "cooling">>}
  PROVE  StateInv'
<1>1. /\ system_state \in Working \cup {"FAILED", "REDUCED"}
      /\ c \in {"SET_CONFIGURATION", "SET_STANDBY"} /\ work \in {"warming", "cooling"}
      /\ c = "SET_CONFIGURATION" => work = "warming"
      /\ UNCHANGED <<background_state, reports>> /\ Change(c)
  BY DEF StateInv, StateTypeOK, Order
<1>2. CASE Targets(system_state, c) = {}
  <2>1. UNCHANGED <<system_state, hardware, overtaken>>
    BY <1>1, <1>2, ChangeLeads DEF Order
  <2> QED BY <1>1, <2>1, StateInvSame DEF StateInv, StateTypeOK
<1>3. CASE Targets(system_state, c) # {}
  <2>1. /\ system_state' \in Targets(system_state, c)
        /\ system_state' \in Working \cup {"FAILED", "REDUCED"}
        /\ system_state' # "OPERATIONAL"
        /\ system_state' = "WARMUP" => work = "warming"
    BY <1>1, <1>3, ChangeLeads, ToOperational, ToWarmup
  <2>2. /\ hardware' = IF hardware \in {"failed", "silent"} THEN hardware ELSE work
        /\ overtaken' \in BOOLEAN
        /\ ~overtaken' => reports = << >>
    BY <1>3 DEF Order, Busy
  <2>3. StateTypeOK'
    BY <1>1, <2>1, <2>2 DEF StateInv, StateTypeOK
  <2>4. FailureIsTrue'
    BY <1>1, <2>2 DEF StateInv, FailureIsTrue
  <2>5. WarmupIsAnswered'
    BY <1>1, <2>1, <2>2 DEF WarmupIsAnswered
  <2> QED BY <2>1, <2>3, <2>4, <2>5 DEF StateInv, OperationalIsWarm
<1> QED BY <1>2, <1>3

LEMMA HandleReportKeeps ==
  ASSUME StateInv, HandleReport
  PROVE  StateInv'
<1> DEFINE c == Head(reports)
           FAIL == "CS_HARDWARE_FAILURE"
<1>1. /\ system_state \in Working \cup {"FAILED", "REDUCED"}
      /\ reports # << >> /\ Change(c) /\ reports' = Tail(reports)
      /\ UNCHANGED <<background_state, hardware, overtaken>>
  BY DEF StateInv, StateTypeOK, HandleReport
<1>2. /\ reports \in Seq(Conditions) /\ c \in Conditions
      /\ reports' \in BoundedSeq(Conditions, MaxReports)
  BY <1>1, StateTypes, StateAssumption, BoundedIs DEF StateInv
<1>3. Contains(reports, FAIL) <=> c = FAIL \/ Contains(reports', FAIL)
  BY <1>1, <1>2, ContainsTail
<1> HIDE DEF c
<1>4. /\ system_state' \in Working \cup {"FAILED", "REDUCED"}
      /\ Targets(system_state, c) = {} => system_state' = system_state
      /\ Targets(system_state, c) # {} => system_state' \in Targets(system_state, c)
  BY <1>1, ChangeLeads
<1>5. StateTypeOK' /\ FailureIsTrue'
  BY <1>1, <1>2, <1>3, <1>4 DEF StateInv, StateTypeOK, FailureIsTrue
<1>6. c = "HARDWARE_READY" \/ c = FAIL
  BY <1>2 DEF Conditions
<1>7. system_state' # "WARMUP"
  <2> SUFFICES ASSUME system_state' = "WARMUP" PROVE FALSE
    OBVIOUS
  <2>1. Targets(system_state, c) = {}
    BY <1>4, <1>6, ToWarmup
  <2>2. system_state = "WARMUP"
    BY <1>4, <2>1
  <2> QED BY <1>6, <2>1, <2>2, ReportsTaken DEF Working
<1>8. OperationalIsWarm'
  <2> SUFFICES ASSUME system_state' = "OPERATIONAL", ~overtaken
               PROVE  hardware = "warm" \/ Contains(reports', FAIL)
    BY <1>1 DEF OperationalIsWarm
  <2>1. CASE Targets(system_state, c) = {}
    <3>1. system_state = "OPERATIONAL"
      BY <1>4, <2>1
    <3>2. c # FAIL
      BY <2>1, <3>1, ReportsTaken DEF Working
    <3> QED BY <1>3, <3>1, <3>2 DEF StateInv, OperationalIsWarm
  <2>2. CASE Targets(system_state, c) # {}
    <3>1. system_state = "WARMUP" /\ c = "HARDWARE_READY"
      BY <1>4, <2>2, ToOperational
    <3> QED BY <1>1, <3>1 DEF StateInv, WarmupIsAnswered, c
  <2> QED BY <2>1, <2>2
<1> QED BY <1>5, <1>7, <1>8 DEF StateInv, WarmupIsAnswered

(* The hardware reports: what waits for the software stays in front.       *)
LEMMA ReportAdds ==
  ASSUME StateTypeOK, NEW c \in Conditions, Report(c)
  PROVE  /\ reports' \in BoundedSeq(Conditions, MaxReports) /\ reports' # << >>
         /\ Head(reports') = IF reports = << >> THEN c ELSE Head(reports)
         /\ \A e : Contains(reports', e) <=> Contains(reports, e) \/ c = e
         /\ \A e : reports # << >> =>
              (Contains(Tail(reports'), e) <=> Contains(Tail(reports), e) \/ c = e)
<1>1. /\ reports \in Seq(Conditions) /\ Len(reports) < MaxReports
      /\ reports' = Append(reports, c)
  BY StateTypes DEF Report
<1>2. /\ reports' \in Seq(Conditions) /\ Len(reports') = Len(reports) + 1 /\ reports' # << >>
      /\ Len(reports) \in Nat /\ \A i \in 1 .. Len(reports) : reports'[i] = reports[i]
      /\ reports'[Len(reports) + 1] = c
  BY <1>1, AppendProperties, LenProperties
<1>3. reports' \in BoundedSeq(Conditions, MaxReports)
  <2>1. Len(reports') <= MaxReports
    BY <1>1, <1>2, StateAssumption
  <2> QED BY <1>2, <2>1, StateAssumption, BoundedIs
<1>4. \A e : Contains(reports', e) <=> Contains(reports, e) \/ c = e
  BY <1>1, ContainsAppend
<1>5. Head(reports') = reports'[1] /\ (reports # << >> => Head(reports) = reports[1])
  BY <1>1, <1>2, HeadTailProperties
<1>6. reports = << >> <=> Len(reports) = 0
  BY <1>1, EmptySeq
<1>7. Head(reports') = IF reports = << >> THEN c ELSE Head(reports)
  BY <1>2, <1>5, <1>6
<1>8. ASSUME reports # << >> PROVE Tail(reports') = Append(Tail(reports), c)
                                   /\ Tail(reports) \in Seq(Conditions)
  BY <1>1, <1>8
<1>9. \A e : reports # << >> =>
        (Contains(Tail(reports'), e) <=> Contains(Tail(reports), e) \/ c = e)
  <2> SUFFICES ASSUME NEW e, reports # << >>
               PROVE  Contains(Tail(reports'), e) <=> Contains(Tail(reports), e) \/ c = e
    OBVIOUS
  <2>1. Tail(reports') = Append(Tail(reports), c) /\ Tail(reports) \in Seq(Conditions)
    BY <1>8
  <2> DEFINE s == Tail(reports)
  <2> HIDE DEF s
  <2>2. Contains(Append(s, c), e) <=> Contains(s, e) \/ c = e
    BY <2>1, ContainsAppend DEF s
  <2> QED BY <2>1, <2>2 DEF s
<1> QED BY <1>2, <1>3, <1>4, <1>7, <1>9

LEMMA StateInvStays == StateInv /\ [StateNext]_stateVars => StateInv'
<1> SUFFICES ASSUME StateInv, [StateNext]_stateVars PROVE StateInv'
  OBVIOUS
<1> DEFINE FAIL == "CS_HARDWARE_FAILURE"
<1>0. StateTypeOK /\ system_state \in Working \cup {"FAILED", "REDUCED"}
      /\ background_state \in {"NO_COLLECTING", "OFFSET_COLLECTING"}
  BY DEF StateInv, StateTypeOK
<1>1. ASSUME NEW c \in {"CS_SOFTWARE_INITIALIZED", "CS_SOFTWARE_FAILURE", "CS_SOFTWARE_TIMEOUT"},
             Change(c), UNCHANGED <<background_state, hardware, reports, overtaken>>
      PROVE  StateInv'
  <2>1. system_state' \in {"WARMUP", "OPERATIONAL"} => system_state' = system_state
    BY <1>0, <1>1, ChangeLeads, ToOperational, ToWarmup
  <2> QED BY <1>0, <1>1, <2>1, ChangeLeads, StateInvSame
<1>2. CASE Initialized \/ SoftwareFails \/ WaitsTooLong
  BY <1>1, <1>2 DEF Initialized, SoftwareFails, WaitsTooLong
<1>3. CASE SetConfiguration \/ SetStandby
  BY <1>3, OrderKeeps DEF SetConfiguration, SetStandby
<1>4. CASE HandleReport
  BY <1>4, HandleReportKeeps
<1>5. CASE SetStandbySystemState
  <2>1. overtaken' \in BOOLEAN /\ system_state' = "STANDBY"
        /\ UNCHANGED <<background_state, hardware, reports>>
    BY <1>5 DEF SetStandbySystemState
  <2> QED BY <1>0, <2>1
       DEF StateInv, StateTypeOK, FailureIsTrue, WarmupIsAnswered, OperationalIsWarm, Working
<1>6. CASE ChangeBackgroundMode
  BY <1>0, <1>6, StateInvSame DEF ChangeBackgroundMode
<1>7. CASE HardwareIsReady
  <2>1. /\ hardware \in {"warming", "cooling"} /\ Report("HARDWARE_READY")
        /\ hardware' = IF hardware = "warming" THEN "warm" ELSE "cold"
        /\ UNCHANGED <<system_state, background_state, overtaken>>
        /\ "HARDWARE_READY" \in Conditions
    BY <1>7 DEF HardwareIsReady, Conditions
  <2>2. ~Contains(reports, FAIL)
    BY <2>1 DEF StateInv, FailureIsTrue
  <2>3. ~Contains(reports', FAIL) /\ reports' \in BoundedSeq(Conditions, MaxReports)
    BY <1>0, <2>1, <2>2, ReportAdds
  <2>4. StateTypeOK' /\ FailureIsTrue'
    BY <1>0, <2>1, <2>3 DEF StateTypeOK, FailureIsTrue
  <2>5. WarmupIsAnswered'
    BY <2>1 DEF StateInv, WarmupIsAnswered
  <2>6. OperationalIsWarm'
    BY <2>1, <2>2 DEF StateInv, OperationalIsWarm
  <2> QED BY <2>4, <2>5, <2>6 DEF StateInv
<1>8. CASE HardwareFails
  <2>1. /\ Report(FAIL) /\ hardware' = "failed" /\ FAIL \in Conditions
        /\ UNCHANGED <<system_state, background_state, overtaken>>
    BY <1>8 DEF HardwareFails, Conditions
  <2>2. /\ Contains(reports', FAIL) /\ reports' \in BoundedSeq(Conditions, MaxReports)
        /\ Head(reports') = IF reports = << >> THEN FAIL ELSE Head(reports)
        /\ reports # << >> => Contains(Tail(reports'), FAIL)
    BY <1>0, <2>1, ReportAdds
  <2>3. StateTypeOK' /\ FailureIsTrue'
    BY <1>0, <2>1, <2>2 DEF StateTypeOK, FailureIsTrue
  <2>4. WarmupIsAnswered'
    BY <2>1, <2>2 DEF WarmupIsAnswered
  <2> QED BY <2>2, <2>3, <2>4 DEF StateInv, OperationalIsWarm
<1>9. CASE HardwareFallsSilent
  <2>1. /\ hardware \in {"warming", "cooling"} /\ hardware' = "silent"
        /\ UNCHANGED <<system_state, background_state, reports, overtaken>>
    BY <1>9 DEF HardwareFallsSilent
  <2>2. ~Contains(reports, FAIL)
    BY <2>1 DEF StateInv, FailureIsTrue
  <2>3. StateTypeOK' /\ FailureIsTrue'
    BY <1>0, <2>1, <2>2 DEF StateTypeOK, FailureIsTrue
  <2>4. WarmupIsAnswered' /\ OperationalIsWarm'
    <3>1. ~(system_state = "OPERATIONAL" /\ ~overtaken)
      BY <2>1, <2>2 DEF StateInv, OperationalIsWarm
    <3> QED BY <2>1, <3>1 DEF StateInv, WarmupIsAnswered, OperationalIsWarm
  <2> QED BY <2>3, <2>4 DEF StateInv
<1>10. CASE UNCHANGED stateVars
  <2>1. UNCHANGED <<system_state, background_state, hardware, reports, overtaken>>
    BY <1>10 DEF stateVars
  <2> QED BY <1>0, <2>1, StateInvSame
<1> QED BY <1>2, <1>3, <1>4, <1>5, <1>6, <1>7, <1>8, <1>9, <1>10 DEF StateNext

LEMMA StateInitially == StateInit => StateInv
<1> SUFFICES ASSUME StateInit PROVE StateInv
  OBVIOUS
<1>1. << >> \in Seq(Conditions) /\ Len(<< >>) = 0 /\ 0 <= MaxReports
  BY StateAssumption
<1>2. reports \in BoundedSeq(Conditions, MaxReports)
  BY <1>1, StateAssumption, BoundedIs DEF StateInit
<1>3. ~Contains(reports, "CS_HARDWARE_FAILURE")
  BY DEF StateInit, Contains
<1> QED BY <1>2, <1>3
     DEF StateInit, StateInv, StateTypeOK, FailureIsTrue, WarmupIsAnswered, OperationalIsWarm, Working

(* As long as no order overtakes another, HARDWARE_READY makes the system  *)
(* operational only when the hardware is warm, or has failed since and has *)
(* said so: an answer to an older order is never taken for this one's.     *)
THEOREM OperationalMeansWarm == StateSpec => []OperationalIsWarm
<1>1. StateInv => OperationalIsWarm
  BY DEF StateInv
<1> QED BY <1>1, StateInitially, StateInvStays, PTL DEF StateSpec

-----------------------------------------------------------------------------
(* The two threads.  How far the writer is ahead, and the slots from the   *)
(* reader's on; a pointer may be one step before its wrap.                 *)
Turned(p) == IF p = MAX THEN 0 ELSE p

AheadOf(w, r) ==
  IF Turned(w) >= Turned(r) THEN Turned(w) - Turned(r) ELSE Turned(w) - Turned(r) + MAX

SlotOf(r, k) == IF Turned(r) + k < MAX THEN Turned(r) + k ELSE Turned(r) + k - MAX

(* What is between the pointers has been written one after the other, ends *)
(* with the last frame the writer stepped over, and begins after the last  *)
(* one the reader did.  Nobody steps where the other is.                   *)
Shown == IF wpos = "step" THEN written - 1 ELSE written

FramesInOrder ==
  /\ received = Shown - AheadOf(wp, rp)
  /\ \A k \in 0 .. MAX - 1 : k < AheadOf(wp, rp) => arrays[SlotOf(rp, k)] = received + 1 + k
  /\ rpos = "next" => held = arrays[rp]
  /\ wpos = "step" => arrays[wp] = written /\ written > 0

ThreadsApart ==
  /\ wpos = "wrapped?" => wp + 1 # rp
  /\ wpos \in {"fill", "step"} => AheadOf(wp, rp) # MAX - 1
  /\ rpos \in {"read", "next"} => AheadOf(wp, rp) # 0

ThreadInv ==
  /\ ThreadTypeOK
  /\ wp = MAX => wpos = "turn"
  /\ rp = MAX => rpos = "wrap"
  /\ wpos \in {"wrapped?", "fill"} => written < MaxWrites
  /\ ~raced => ThreadsApart /\ FramesInOrder

LEMMA TurnedIs ==
  ASSUME NEW p \in 0 .. MAX
  PROVE  Turned(p) \in 0 .. MAX - 1 /\ p % MAX = Turned(p) /\ (p # MAX => Turned(p) = p)
BY ThreadAssumption DEF Turned

LEMMA AheadIs ==
  ASSUME NEW w \in 0 .. MAX, NEW r \in 0 .. MAX
  PROVE  /\ AheadOf(w, r) \in 0 .. MAX - 1
         /\ ((w % MAX) - (r % MAX) + MAX) % MAX = AheadOf(w, r)
<1>1. /\ Turned(w) \in 0 .. MAX - 1 /\ Turned(r) \in 0 .. MAX - 1
      /\ w % MAX = Turned(w) /\ r % MAX = Turned(r)
  BY TurnedIs
<1>2. ASSUME NEW a \in 0 .. MAX - 1, NEW b \in 0 .. MAX - 1
      PROVE  (a - b + MAX) % MAX = IF a >= b THEN a - b ELSE a - b + MAX
  <2>1. a - b + MAX \in 0 .. 2 * MAX - 1
    BY ThreadAssumption
  <2>2. (a - b + MAX) % MAX = IF a - b + MAX < MAX THEN a - b + MAX ELSE a - b
    BY <2>1, ThreadAssumption
  <2> QED BY <2>2, ThreadAssumption
<1>3. AheadOf(w, r) \in 0 .. MAX - 1
  BY <1>1, ThreadAssumption DEF AheadOf
<1>4. (Turned(w) - Turned(r) + MAX) % MAX = AheadOf(w, r)
  BY <1>1, <1>2 DEF AheadOf
<1> QED BY <1>1, <1>3, <1>4

LEMMA SlotIs ==
  ASSUME NEW r \in 0 .. MAX, NEW k \in 0 .. MAX - 1
  PROVE  SlotOf(r, k) \in 0 .. MAX - 1 /\ (r + k) % MAX = SlotOf(r, k)
<1>1. Turned(r) \in 0 .. MAX - 1
  BY TurnedIs
<1>2. SlotOf(r, k) \in 0 .. MAX - 1
  BY <1>1, ThreadAssumption DEF SlotOf
<1>3. CASE r = MAX
  <2>1. r + k \in 0 .. 2 * MAX - 1 /\ ~(r + k < MAX)
    BY <1>3, ThreadAssumption
  <2>2. (r + k) % MAX = r + k - MAX
    BY <2>1, ThreadAssumption
  <2> QED BY <1>2, <1>3, <2>2, ThreadAssumption DEF SlotOf, Turned
<1>4. CASE r # MAX
  <2>1. r + k \in 0 .. 2 * MAX - 1
    BY <1>4, ThreadAssumption
  <2>2. (r + k) % MAX = IF r + k < MAX THEN r + k ELSE r + k - MAX
    BY <2>1, ThreadAssumption
  <2> QED BY <1>2, <1>4, <2>2 DEF SlotOf, Turned
<1> QED BY <1>3, <1>4

(* A wrap moves nothing.                                                   *)
LEMMA TurnMovesNothing ==
  ASSUME NEW w \in 0 .. MAX, NEW r \in 0 .. MAX
  PROVE  /\ AheadOf(0, r) = AheadOf(MAX, r) /\ AheadOf(w, 0) = AheadOf(w, MAX)
         /\ \A k \in 0 .. MAX - 1 : SlotOf(0, k) = SlotOf(MAX, k)
BY ThreadAssumption DEF AheadOf, SlotOf, Turned

(* The slot of the writer is the first one behind those that wait.         *)
LEMMA WriterSlot ==
  ASSUME NEW w \in 0 .. MAX - 1, NEW r \in 0 .. MAX, NEW k \in 0 .. MAX - 1
  PROVE  SlotOf(r, k) = w <=> k = AheadOf(w, r)
BY ThreadAssumption DEF AheadOf, SlotOf, Turned

LEMMA WriterSteps ==
  ASSUME NEW w \in 0 .. MAX - 1, NEW r \in 0 .. MAX
  PROVE  /\ AheadOf(w, r) # MAX - 1 => AheadOf(w + 1, r) = AheadOf(w, r) + 1
         /\ AheadOf(w, r) = MAX - 1 => w + 1 = r \/ (w + 1 = MAX /\ r = 0)
BY ThreadAssumption DEF AheadOf, Turned

LEMMA ReaderSteps ==
  ASSUME NEW w \in 0 .. MAX, NEW r \in 0 .. MAX - 1
  PROVE  /\ AheadOf(w, r) # 0 => AheadOf(w, r + 1) = AheadOf(w, r) - 1
         /\ AheadOf(w, r) = 0 <=> w = r \/ (w = MAX /\ r = 0)
         /\ SlotOf(r, 0) = r
         /\ \A k \in 0 .. MAX - 2 : SlotOf(r + 1, k) = SlotOf(r, k + 1)
BY ThreadAssumption DEF AheadOf, SlotOf, Turned

LEMMA ThreadFacts ==
  ASSUME ThreadTypeOK
  PROVE  /\ arrays \in [0 .. MAX - 1 -> 0 .. MaxWrites] /\ wp \in 0 .. MAX /\ rp \in 0 .. MAX
         /\ {written, held, received} \subseteq 0 .. MaxWrites
         /\ written \in Nat /\ held \in Nat /\ received \in Nat /\ Shown \in Int
         /\ AheadOf(wp, rp) \in 0 .. MAX - 1
<1>1. /\ arrays \in [0 .. MAX - 1 -> 0 .. MaxWrites] /\ wp \in 0 .. MAX /\ rp \in 0 .. MAX
      /\ {written, held, received} \subseteq 0 .. MaxWrites
  BY DEF ThreadTypeOK
<1>2. written \in Nat /\ held \in Nat /\ received \in Nat
  BY <1>1
<1> QED BY <1>1, <1>2, AheadIs DEF Shown

(* Steps that move no pointer and no frame.                                *)
LEMMA StandStill ==
  ASSUME FramesInOrder, UNCHANGED <<arrays, wp, rp, written, held, received>>,
         wpos' = "step" <=> wpos = "step", rpos' = "next" => rpos = "next"
  PROVE  FramesInOrder'
BY DEF FramesInOrder, Shown

LEMMA WriterChecks ==
  ASSUME ThreadInv, CheckNext \/ CheckWrapped
  PROVE  ThreadInv'
<1>1. /\ UNCHANGED <<arrays, wp, rp, rpos, written, held, received, raced>>
      /\ wpos \in {"full?", "wrapped?"} /\ wpos' \in {"full?", "wrapped?", "fill"}
      /\ wpos' = "wrapped?" => written < MaxWrites /\ wp + 1 # rp
      /\ wpos' = "fill" => wpos = "wrapped?" /\ ~(wp + 1 = MAX /\ rp = 0)
  BY DEF CheckNext, CheckWrapped
<1>2. ThreadTypeOK'
  BY <1>1 DEF ThreadInv, ThreadTypeOK
<1>3. ASSUME ~raced PROVE ThreadsApart' /\ FramesInOrder'
  <2>1. FramesInOrder'
    BY <1>1, <1>3, StandStill DEF ThreadInv
  <2>2. wpos' = "fill" => AheadOf(wp, rp) # MAX - 1
    <3>1. wp \in 0 .. MAX - 1 /\ rp \in 0 .. MAX
      BY <1>1, ThreadAssumption DEF ThreadInv, ThreadTypeOK
    <3> QED BY <1>1, <1>3, <3>1, WriterSteps DEF ThreadInv, ThreadsApart
  <2> QED BY <1>1, <1>3, <2>1, <2>2 DEF ThreadInv, ThreadsApart
<1> QED BY <1>1, <1>2, <1>3 DEF ThreadInv

LEMMA WriterFills ==
  ASSUME ThreadInv, Fill
  PROVE  ThreadInv'
<1>1. /\ UNCHANGED <<wp, rp, rpos, held, received, raced>>
      /\ wpos = "fill" /\ wpos' = "step" /\ written' = written + 1
      /\ arrays' = [arrays EXCEPT ![wp] = written'] /\ written < MaxWrites
  BY DEF Fill, ThreadInv
<1>2. /\ arrays \in [0 .. MAX - 1 -> 0 .. MaxWrites] /\ wp \in 0 .. MAX - 1 /\ rp \in 0 .. MAX
      /\ written \in Nat /\ written' \in 0 .. MaxWrites
      /\ AheadOf(wp, rp) \in 0 .. MAX - 1
  <2>1. ThreadTypeOK /\ wp # MAX
    BY <1>1 DEF ThreadInv
  <2>2. /\ arrays \in [0 .. MAX - 1 -> 0 .. MaxWrites] /\ wp \in 0 .. MAX /\ rp \in 0 .. MAX
        /\ written \in Nat /\ AheadOf(wp, rp) \in 0 .. MAX - 1
    BY <2>1, ThreadFacts
  <2>3. wp \in 0 .. MAX - 1
    BY <2>1, <2>2, ThreadAssumption
  <2>4. written' \in 0 .. MaxWrites
    BY <1>1, <2>2, ThreadAssumption
  <2> QED BY <2>2, <2>3, <2>4
<1>3. /\ arrays' \in [0 .. MAX - 1 -> 0 .. MaxWrites] /\ arrays'[wp] = written'
      /\ \A i \in 0 .. MAX - 1 : i # wp => arrays'[i] = arrays[i]
  <2>1. arrays' = [arrays EXCEPT ![wp] = written']
    BY <1>1
  <2> QED BY <1>2, <2>1
<1>4. ThreadTypeOK'
  BY <1>1, <1>2, <1>3 DEF ThreadInv, ThreadTypeOK
<1>5. ASSUME ~raced PROVE ThreadsApart' /\ FramesInOrder'
  <2>1. ThreadsApart /\ FramesInOrder /\ AheadOf(wp, rp) # MAX - 1
    BY <1>1, <1>5 DEF ThreadInv, ThreadsApart
  <2>2. ThreadsApart'
    BY <1>1, <2>1 DEF ThreadsApart
  <2>3. Shown' = Shown
    BY <1>1, <1>2 DEF Shown
  <2>4. ASSUME NEW k \in 0 .. MAX - 1, k < AheadOf(wp, rp)
        PROVE  arrays'[SlotOf(rp, k)] = received + 1 + k
    <3>1. SlotOf(rp, k) # wp /\ SlotOf(rp, k) \in 0 .. MAX - 1
      BY <1>2, <2>4, WriterSlot, SlotIs
    <3> QED BY <1>3, <2>1, <2>4, <3>1 DEF FramesInOrder
  <2>5. rpos = "next" => arrays'[rp] = arrays[rp]
    <3> SUFFICES ASSUME rpos = "next" PROVE arrays'[rp] = arrays[rp]
      OBVIOUS
    <3>1. AheadOf(wp, rp) # 0 /\ rp \in 0 .. MAX - 1
      BY <1>2, <2>1, ThreadAssumption DEF ThreadInv, ThreadsApart
    <3>2. rp # wp
      BY <1>2, <3>1, ReaderSteps
    <3> QED BY <1>3, <3>1, <3>2
  <2> QED BY <1>1, <1>2, <1>3, <2>1, <2>2, <2>3, <2>4, <2>5 DEF FramesInOrder
<1> QED BY <1>1, <1>4, <1>5 DEF ThreadInv

LEMMA WriterStepsOn ==
  ASSUME ThreadInv, StepWp
  PROVE  ThreadInv'
<1>1. /\ UNCHANGED <<arrays, rp, rpos, written, held, received, raced>>
      /\ wpos = "step" /\ wpos' = "turn" /\ wp' = wp + 1
  BY DEF StepWp
<1>2. /\ wp \in 0 .. MAX - 1 /\ rp \in 0 .. MAX /\ written \in Nat /\ received \in Nat
      /\ AheadOf(wp, rp) \in 0 .. MAX - 1
  BY <1>1, ThreadFacts, ThreadAssumption DEF ThreadInv
<1>3. ThreadTypeOK'
  BY <1>1, <1>2, ThreadAssumption DEF ThreadInv, ThreadTypeOK
<1>4. ASSUME ~raced PROVE ThreadsApart' /\ FramesInOrder'
  <2>1. ThreadsApart /\ FramesInOrder /\ AheadOf(wp, rp) # MAX - 1
    BY <1>1, <1>4 DEF ThreadInv, ThreadsApart
  <2>2. AheadOf(wp', rp') = AheadOf(wp, rp) + 1
    BY <1>1, <1>2, <2>1, WriterSteps
  <2>3. ThreadsApart'
    BY <1>1, <1>2, <2>1, <2>2 DEF ThreadsApart
  <2>4. Shown' = written /\ Shown = written - 1 /\ received = written - 1 - AheadOf(wp, rp)
        /\ arrays[wp] = written
    BY <1>1, <2>1 DEF Shown, FramesInOrder
  <2>5. received = Shown' - AheadOf(wp', rp')
    BY <1>2, <2>2, <2>4
  <2>6. ASSUME NEW k \in 0 .. MAX - 1, k < AheadOf(wp', rp')
        PROVE  arrays[SlotOf(rp, k)] = received + 1 + k
    <3>1. CASE k < AheadOf(wp, rp)
      BY <2>1, <3>1 DEF FramesInOrder
    <3>2. CASE k = AheadOf(wp, rp)
      <4>1. SlotOf(rp, k) = wp
        BY <1>2, <3>2, WriterSlot
      <4> QED BY <1>2, <2>4, <3>2, <4>1
    <3> QED BY <1>2, <2>2, <2>6, <3>1, <3>2
  <2> QED BY <1>1, <2>1, <2>3, <2>5, <2>6 DEF FramesInOrder
<1> QED BY <1>1, <1>2, <1>3, <1>4, ThreadAssumption DEF ThreadInv

LEMMA PointersTurn ==
  ASSUME ThreadInv, WrapWp \/ WrapRp
  PROVE  /\ ThreadInv' /\ UNCHANGED <<AheadOf(wp, rp), raced, received>>
<1>1. UNCHANGED <<arrays, written, held, received, raced>>
  BY DEF WrapWp, WrapRp
<1>2. /\ wp \in 0 .. MAX /\ rp \in 0 .. MAX /\ AheadOf(wp, rp) \in 0 .. MAX - 1
  BY ThreadFacts DEF ThreadInv
<1>3. CASE WrapWp
  <2>1. /\ wpos = "turn" /\ wpos' = "full?" /\ UNCHANGED <<rp, rpos>>
        /\ wp' = IF wp = MAX THEN 0 ELSE wp
    BY <1>3 DEF WrapWp
  <2>2. AheadOf(wp', rp') = AheadOf(wp, rp) /\ wp' \in 0 .. MAX - 1
    BY <1>2, <2>1, TurnMovesNothing, ThreadAssumption
  <2>3. ThreadTypeOK'
    BY <1>1, <2>1, <2>2, ThreadAssumption DEF ThreadInv, ThreadTypeOK
  <2>4. ASSUME ~raced PROVE ThreadsApart' /\ FramesInOrder'
    BY <1>1, <2>1, <2>2, <2>4 DEF ThreadInv, ThreadsApart, FramesInOrder, Shown
  <2> QED BY <1>1, <2>1, <2>2, <2>3, <2>4, ThreadAssumption DEF ThreadInv
<1>4. CASE WrapRp
  <2>1. /\ rpos = "wrap" /\ rpos' = "empty?" /\ UNCHANGED <<wp, wpos>>
        /\ rp' = IF rp = MAX THEN 0 ELSE rp
    BY <1>4 DEF WrapRp
  <2>2. AheadOf(wp', rp') = AheadOf(wp, rp) /\ rp' \in 0 .. MAX - 1
        /\ \A k \in 0 .. MAX - 1 : SlotOf(rp', k) = SlotOf(rp, k)
    BY <1>2, <2>1, TurnMovesNothing, ThreadAssumption
  <2>3. ThreadTypeOK'
    BY <1>1, <2>1, <2>2, ThreadAssumption DEF ThreadInv, ThreadTypeOK
  <2>4. ASSUME ~raced PROVE ThreadsApart' /\ FramesInOrder'
    <3>1. ThreadsApart /\ FramesInOrder
      BY <2>4 DEF ThreadInv
    <3>2. wpos = "wrapped?" => wp + 1 # rp'
      <4> SUFFICES ASSUME wpos = "wrapped?" PROVE wp + 1 # rp'
        OBVIOUS
      <4> QED BY <1>2, <2>1, <3>1 DEF ThreadsApart
    <3>3. ThreadsApart'
      BY <2>1, <2>2, <3>1, <3>2 DEF ThreadsApart
    <3>4. FramesInOrder'
      BY <1>1, <2>1, <2>2, <3>1 DEF FramesInOrder, Shown
    <3> QED BY <3>3, <3>4
  <2> QED BY <1>1, <2>1, <2>2, <2>3, <2>4, ThreadAssumption DEF ThreadInv
<1> QED BY <1>3, <1>4

LEMMA ReaderChecks ==
  ASSUME ThreadInv, CheckEmpty
  PROVE  ThreadInv'
<1>1. /\ UNCHANGED <<arrays, wp, rp, wpos, written, held, received>>
      /\ rpos = "empty?" /\ rpos' = IF rp = wp THEN "wrap" ELSE "read"
  BY DEF CheckEmpty
<1>2. raced' \in BOOLEAN
  BY Zenon DEF CheckEmpty
<1>3. ~raced' => ~raced /\ ~(rp = 0 /\ wp = MAX)
  BY Zenon DEF CheckEmpty
<1>4. wp \in 0 .. MAX /\ rp \in 0 .. MAX - 1 /\ AheadOf(wp, rp) \in 0 .. MAX - 1
  BY <1>1, ThreadFacts, ThreadAssumption DEF ThreadInv
<1>5. ThreadTypeOK'
  BY <1>1, <1>2 DEF ThreadInv, ThreadTypeOK
<1>6. ASSUME ~raced' PROVE ThreadsApart' /\ FramesInOrder'
  <2>1. rp # wp => AheadOf(wp, rp) # 0
    BY <1>3, <1>4, <1>6, ReaderSteps
  <2>2. ThreadsApart'
    BY <1>1, <1>3, <1>6, <2>1 DEF ThreadInv, ThreadsApart
  <2>3. FramesInOrder'
    BY <1>1, <1>3, <1>6, StandStill DEF ThreadInv
  <2> QED BY <2>2, <2>3
<1> QED BY <1>1, <1>4, <1>5, <1>6, ThreadAssumption DEF ThreadInv

LEMMA ReaderReads ==
  ASSUME ThreadInv, ReadFrame
  PROVE  ThreadInv'
<1>1. /\ UNCHANGED <<arrays, wp, rp, wpos, written, received, raced>>
      /\ rpos = "read" /\ rpos' = "next" /\ held' = arrays[rp]
  BY DEF ReadFrame
<1>2. rp \in 0 .. MAX - 1 /\ arrays[rp] \in 0 .. MaxWrites
  BY <1>1, ThreadFacts, ThreadAssumption DEF ThreadInv
<1>3. ThreadTypeOK'
  BY <1>1, <1>2 DEF ThreadInv, ThreadTypeOK
<1>4. ASSUME ~raced PROVE ThreadsApart' /\ FramesInOrder'
  BY <1>1, <1>4 DEF ThreadInv, ThreadsApart, FramesInOrder, Shown
<1> QED BY <1>1, <1>2, <1>3, <1>4, ThreadAssumption DEF ThreadInv

LEMMA ReaderStepsOn ==
  ASSUME ThreadInv, StepRp
  PROVE  /\ ThreadInv'
         /\ ~raced => /\ AheadOf(wp, rp) # 0 /\ AheadOf(wp', rp') = AheadOf(wp, rp) - 1
                      /\ received' = received + 1
<1>1. /\ UNCHANGED <<arrays, wp, wpos, written, held, raced>>
      /\ rpos = "next" /\ rpos' = "wrap" /\ rp' = rp + 1 /\ received' = held
  BY DEF StepRp
<1>2. /\ wp \in 0 .. MAX /\ rp \in 0 .. MAX - 1 /\ received \in Nat /\ Shown \in Int
      /\ AheadOf(wp, rp) \in 0 .. MAX - 1 /\ held \in 0 .. MaxWrites
  BY <1>1, ThreadFacts, ThreadAssumption DEF ThreadInv
<1>3. ThreadTypeOK'
  BY <1>1, <1>2, ThreadAssumption DEF ThreadInv, ThreadTypeOK
<1>4. ASSUME ~raced
      PROVE  /\ ThreadsApart' /\ FramesInOrder' /\ AheadOf(wp, rp) # 0
             /\ AheadOf(wp', rp') = AheadOf(wp, rp) - 1 /\ received' = received + 1
  <2>1. ThreadsApart /\ FramesInOrder /\ AheadOf(wp, rp) # 0
    BY <1>1, <1>4 DEF ThreadInv, ThreadsApart
  <2>2. /\ AheadOf(wp', rp') = AheadOf(wp, rp) - 1 /\ SlotOf(rp, 0) = rp
        /\ \A k \in 0 .. MAX - 2 : SlotOf(rp', k) = SlotOf(rp, k + 1)
    BY <1>1, <1>2, <2>1, ReaderSteps
  <2>3. received' = received + 1
    <3>1. arrays[SlotOf(rp, 0)] = received + 1 + 0
      BY <1>2, <2>1, ThreadAssumption DEF FramesInOrder
    <3> QED BY <1>1, <1>2, <2>1, <2>2, <3>1 DEF FramesInOrder
  <2>4. received' = Shown' - AheadOf(wp', rp')
    BY <1>1, <1>2, <2>1, <2>2, <2>3 DEF FramesInOrder, Shown
  <2>5. ASSUME NEW k \in 0 .. MAX - 1, k < AheadOf(wp', rp')
        PROVE  arrays[SlotOf(rp', k)] = received' + 1 + k
    <3>1. k + 1 \in 0 .. MAX - 1 /\ k \in 0 .. MAX - 2 /\ k + 1 < AheadOf(wp, rp)
      BY <1>2, <2>2, <2>5, ThreadAssumption
    <3>2. arrays[SlotOf(rp, k + 1)] = received + 1 + (k + 1)
      BY <2>1, <3>1 DEF FramesInOrder
    <3> QED BY <1>2, <2>2, <2>3, <3>1, <3>2
  <2>6. FramesInOrder'
    BY <1>1, <2>1, <2>4, <2>5 DEF FramesInOrder
  <2>7. wpos = "wrapped?" => wp + 1 # rp'
    <3> SUFFICES ASSUME wpos = "wrapped?", wp + 1 = rp' PROVE FALSE
      OBVIOUS
    <3>1. wp = rp
      BY <1>1, <1>2
    <3> QED BY <1>2, <2>1, <3>1, ReaderSteps
  <2>8. AheadOf(wp', rp') # MAX - 1
    BY <1>2, <2>2, ThreadAssumption
  <2>9. ThreadsApart'
    BY <1>1, <2>7, <2>8 DEF ThreadsApart
  <2> QED BY <2>1, <2>2, <2>3, <2>6, <2>9
<1> QED BY <1>1, <1>2, <1>3, <1>4, ThreadAssumption DEF ThreadInv

LEMMA ThreadInvStays == ThreadInv /\ [ThreadNext]_threadVars => ThreadInv'
<1> SUFFICES ASSUME ThreadInv, [ThreadNext]_threadVars PROVE ThreadInv'
  OBVIOUS
<1>1. CASE Writer
  BY <1>1, WriterChecks, WriterFills, WriterStepsOn, PointersTurn DEF Writer
<1>2. CASE Reader
  BY <1>2, PointersTurn, ReaderChecks, ReaderReads, ReaderStepsOn DEF Reader
<1>3. CASE UNCHANGED threadVars
  BY <1>3 DEF threadVars, ThreadInv, ThreadTypeOK, ThreadsApart, FramesInOrder, Shown
<1> QED BY <1>1, <1>2, <1>3 DEF ThreadNext

LEMMA ThreadInitially == ThreadInit => ThreadInv
<1> SUFFICES ASSUME ThreadInit PROVE ThreadInv
  OBVIOUS
<1>1. AheadOf(0, 0) = 0
  BY ThreadAssumption DEF AheadOf, Turned
<1>2. ThreadTypeOK
  <2>1. 0 \in 0 .. MaxWrites /\ 0 \in 0 .. MAX
    BY ThreadAssumption
  <2>2. arrays \in [0 .. MAX - 1 -> 0 .. MaxWrites]
    BY <2>1 DEF ThreadInit
  <2>3. {written, held, received} \subseteq 0 .. MaxWrites
    BY <2>1 DEF ThreadInit
  <2> QED BY <2>1, <2>2, <2>3 DEF ThreadInit, ThreadTypeOK
<1>3. ThreadsApart /\ FramesInOrder
  BY <1>1, ThreadAssumption DEF ThreadInit, ThreadsApart, FramesInOrder, Shown
<1> QED BY <1>2, <1>3, ThreadAssumption DEF ThreadInit, ThreadInv

-----------------------------------------------------------------------------
(* The queue the two threads implement: n frames, one after the other,     *)
(* from the one behind r on.                                               *)
Numbers(r, n) == [k \in 1 .. n |-> r + k]

LEMMA NumbersAreSeq ==
  ASSUME NEW r \in Nat, NEW n \in Nat
  PROVE  /\ Numbers(r, n) \in Seq(Nat) /\ Len(Numbers(r, n)) = n
         /\ \A k \in 1 .. n : Numbers(r, n)[k] = r + k
         /\ Numbers(r, n) = << >> <=> n = 0
<1>1. \A k \in 1 .. n : r + k \in Nat
  OBVIOUS
<1>2. Numbers(r, n) \in Seq(Nat) /\ Len(Numbers(r, n)) = n
  BY <1>1 DEF Numbers
<1> QED BY <1>2, EmptySeq DEF Numbers

LEMMA NumbersGrow ==
  ASSUME NEW r \in Nat, NEW n \in Nat
  PROVE  Numbers(r, n + 1) = Append(Numbers(r, n), r + n + 1)
<1> DEFINE s == Numbers(r, n)
           t == Append(s, r + n + 1)
<1>1. s \in Seq(Nat) /\ Len(s) = n /\ \A k \in 1 .. n : s[k] = r + k
  BY NumbersAreSeq
<1>2. /\ Numbers(r, n + 1) \in Seq(Nat) /\ Len(Numbers(r, n + 1)) = n + 1
      /\ \A k \in 1 .. n + 1 : Numbers(r, n + 1)[k] = r + k
  BY NumbersAreSeq
<1> HIDE DEF s
<1>3. /\ t \in Seq(Nat) /\ Len(t) = n + 1 /\ t[n + 1] = r + n + 1
      /\ \A k \in 1 .. n : t[k] = s[k]
  BY <1>1, AppendProperties
<1>4. \A k \in 1 .. n + 1 : t[k] = r + k
  <2> SUFFICES ASSUME NEW k \in 1 .. n + 1 PROVE t[k] = r + k
    OBVIOUS
  <2>1. k = n + 1 \/ k \in 1 .. n
    OBVIOUS
  <2> QED BY <1>1, <1>3, <2>1
<1> HIDE DEF t
<1>5. \A k \in 1 .. n + 1 : t[k] = Numbers(r, n + 1)[k]
  BY <1>2, <1>4
<1>6. t = Numbers(r, n + 1)
  BY <1>2, <1>3, <1>5, SeqEqual
<1> QED BY <1>6 DEF s, t

LEMMA NumbersShrink ==
  ASSUME NEW r \in Nat, NEW n \in Nat \ {0}
  PROVE  /\ Numbers(r, n) # << >> /\ Head(Numbers(r, n)) = r + 1
         /\ Tail(Numbers(r, n)) = Numbers(r + 1, n - 1)
<1> DEFINE s == Numbers(r, n)
           t == Numbers(r + 1, n - 1)
<1>1. s \in Seq(Nat) /\ Len(s) = n /\ s # << >> /\ \A k \in 1 .. n : s[k] = r + k
  BY NumbersAreSeq
<1>2. t \in Seq(Nat) /\ Len(t) = n - 1 /\ \A k \in 1 .. n - 1 : t[k] = r + 1 + k
  <2>1. r + 1 \in Nat /\ n - 1 \in Nat
    OBVIOUS
  <2> QED BY <2>1, NumbersAreSeq
<1> HIDE DEF s, t
<1>3. /\ Head(s) = s[1] /\ Tail(s) \in Seq(Nat) /\ Len(Tail(s)) = n - 1
      /\ \A k \in 1 .. n - 1 : Tail(s)[k] = s[k + 1]
  BY <1>1, HeadTailProperties
<1>4. \A k \in 1 .. n - 1 : Tail(s)[k] = t[k]
  <2> SUFFICES ASSUME NEW k \in 1 .. n - 1 PROVE Tail(s)[k] = t[k]
    OBVIOUS
  <2>1. k + 1 \in 1 .. n
    OBVIOUS
  <2>2. s[k + 1] = r + (k + 1)
    BY <1>1, <2>1
  <2> QED BY <1>2, <1>3, <2>2
<1>5. Tail(s) = t
  BY <1>2, <1>3, <1>4, SeqEqual
<1>6. Head(s) = r + 1
  BY <1>1, <1>3
<1> QED BY <1>1, <1>5, <1>6 DEF s, t

LEMMA WaitingIs ==
  ASSUME ThreadInv, ~raced
  PROVE  Waiting = Numbers(received, AheadOf(wp, rp))
<1>1. /\ wp \in 0 .. MAX /\ rp \in 0 .. MAX /\ AheadOf(wp, rp) \in 0 .. MAX - 1
      /\ received \in Nat /\ FramesInOrder
  BY ThreadFacts DEF ThreadInv
<1>2. Between = AheadOf(wp, rp)
  BY <1>1, AheadIs DEF Between
<1>3. ASSUME NEW k \in 1 .. AheadOf(wp, rp) PROVE arrays[(rp + k - 1) % MAX] = received + k
  <2>1. k - 1 \in 0 .. MAX - 1 /\ k - 1 < AheadOf(wp, rp) /\ rp + k - 1 = rp + (k - 1)
    BY <1>1, ThreadAssumption
  <2>2. arrays[SlotOf(rp, k - 1)] = received + 1 + (k - 1)
    BY <1>1, <2>1 DEF FramesInOrder
  <2>3. (rp + (k - 1)) % MAX = SlotOf(rp, k - 1)
    BY <1>1, <2>1, SlotIs
  <2> QED BY <1>1, <2>1, <2>2, <2>3
<1> QED BY <1>2, <1>3 DEF Waiting, Numbers

LEMMA WaitingIsNext ==
  ASSUME ThreadInv', ~raced'
  PROVE  Waiting' = Numbers(received', AheadOf(wp', rp'))
<1>1. /\ wp' \in 0 .. MAX /\ rp' \in 0 .. MAX /\ received' \in 0 .. MaxWrites
      /\ FramesInOrder'
  BY DEF ThreadInv, ThreadTypeOK
<1>2. AheadOf(wp', rp') \in 0 .. MAX - 1 /\ Between' = AheadOf(wp', rp')
  BY <1>1, AheadIs DEF Between
<1>3. ASSUME NEW k \in 1 .. AheadOf(wp', rp')
      PROVE  arrays'[(rp' + k - 1) % MAX] = received' + k
  <2>1. k - 1 \in 0 .. MAX - 1 /\ k - 1 < AheadOf(wp', rp') /\ rp' + k - 1 = rp' + (k - 1)
    BY <1>1, <1>2, ThreadAssumption
  <2>2. arrays'[SlotOf(rp', k - 1)] = received' + 1 + (k - 1)
    BY <1>1, <2>1 DEF FramesInOrder
  <2>3. (rp' + (k - 1)) % MAX = SlotOf(rp', k - 1)
    BY <1>1, <2>1, SlotIs
  <2> QED BY <1>1, <2>1, <2>2, <2>3
<1> QED BY <1>2, <1>3 DEF Waiting, Numbers

FrameQueueVars == <<IF raced THEN << >> ELSE Waiting, IF raced THEN 0 ELSE received, ~raced>>

LEMMA WriterAnnounces ==
  ASSUME ThreadInv, ThreadInv', ~raced, StepWp
  PROVE  FrameQueue!Announce
<1> DEFINE n == AheadOf(wp, rp)
<1>1. /\ wp' = wp + 1 /\ UNCHANGED <<rp, received, raced, written>> /\ wpos = "step"
      /\ wp \in 0 .. MAX - 1 /\ rp \in 0 .. MAX /\ n \in 0 .. MAX - 1 /\ n # MAX - 1
      /\ received \in Nat /\ received = written - 1 - n /\ written \in 1 .. MaxWrites
  <2>1. wp' = wp + 1 /\ UNCHANGED <<rp, received, raced, written>> /\ wpos = "step"
    BY DEF StepWp
  <2>2. ThreadsApart /\ FramesInOrder /\ wp \in 0 .. MAX - 1 /\ rp \in 0 .. MAX
    BY <2>1, ThreadFacts, ThreadAssumption DEF ThreadInv
  <2>3. ThreadTypeOK /\ n \in 0 .. MAX - 1 /\ received \in Nat /\ written \in 0 .. MaxWrites
    BY ThreadFacts DEF ThreadInv
  <2>4. written \in 1 .. MaxWrites /\ n # MAX - 1
    BY <2>1, <2>2, <2>3, ThreadAssumption DEF ThreadsApart, FramesInOrder
  <2>5. received = written - 1 - n
    BY <2>1, <2>2, <2>3, <2>4 DEF FramesInOrder, Shown
  <2> QED BY <2>1, <2>2, <2>3, <2>4, <2>5
<1>2. AheadOf(wp', rp') = n + 1
  BY <1>1, WriterSteps
<1> HIDE DEF n
<1>3. Waiting = Numbers(received, n) /\ Waiting' = Numbers(received, n + 1)
  BY <1>1, <1>2, WaitingIs, WaitingIsNext DEF n
<1>4. Waiting' = Append(Waiting, written)
  <2>1. n \in Nat /\ received \in Nat /\ received + n + 1 = written
    BY <1>1, ThreadAssumption
  <2>2. Numbers(received, n + 1) = Append(Numbers(received, n), received + n + 1)
    BY <2>1, NumbersGrow
  <2> QED BY <1>3, <2>1, <2>2
<1>5. /\ Waiting \in Seq(Nat) /\ Len(Waiting) = n /\ (Waiting = << >> <=> n = 0)
      /\ \A k \in 1 .. n : Waiting[k] = received + k
  <2>1. n \in Nat /\ received \in Nat
    BY <1>1, ThreadAssumption
  <2> QED BY <1>3, <2>1, NumbersAreSeq
<1>6. (IF Waiting = << >> THEN received ELSE Waiting[Len(Waiting)]) < written
  BY <1>1, <1>5
<1>7. Len(Waiting) < MAX - 1 /\ written \in 1 .. MaxWrites
  BY <1>1, <1>5, ThreadAssumption
<1> QED BY <1>1, <1>4, <1>6, <1>7 DEF FrameQueue!Announce, FrameQueue!Newest

LEMMA ReaderDelivers ==
  ASSUME ThreadInv, ThreadInv', ~raced, StepRp
  PROVE  FrameQueue!Deliver
<1> DEFINE n == AheadOf(wp, rp)
<1>1. /\ UNCHANGED raced /\ n \in Nat \ {0} /\ AheadOf(wp', rp') = n - 1
      /\ received \in Nat /\ received' = received + 1
  BY ReaderStepsOn, ThreadFacts DEF ThreadInv, StepRp
<1> HIDE DEF n
<1>2. Waiting = Numbers(received, n) /\ Waiting' = Numbers(received + 1, n - 1)
  BY <1>1, WaitingIs, WaitingIsNext DEF n
<1>3. Waiting # << >> /\ Head(Waiting) = received + 1 /\ Tail(Waiting) = Waiting'
  BY <1>1, <1>2, NumbersShrink
<1> QED BY <1>1, <1>3 DEF FrameQueue!Deliver

LEMMA QueueStands ==
  ASSUME ThreadInv, ThreadInv', UNCHANGED <<received, raced>>,
         AheadOf(wp', rp') = AheadOf(wp, rp)
  PROVE  UNCHANGED FrameQueueVars
<1>1. CASE raced
  BY <1>1 DEF FrameQueueVars
<1>2. CASE ~raced
  <2>1. Waiting' = Waiting
    BY <1>2, WaitingIs, WaitingIsNext
  <2> QED BY <1>2, <2>1 DEF FrameQueueVars
<1> QED BY <1>1, <1>2

LEMMA ThreadsStepQueue ==
  ASSUME ThreadInv, ThreadInv', [ThreadNext]_threadVars
  PROVE  [FrameQueue!Next]_FrameQueueVars
<1>1. CASE CheckNext \/ CheckWrapped \/ Fill \/ ReadFrame \/ UNCHANGED threadVars
  <2>1. UNCHANGED <<wp, rp, received, raced>>
    BY <1>1 DEF CheckNext, CheckWrapped, Fill, ReadFrame, threadVars
  <2> QED BY <2>1, QueueStands
<1>2. CASE WrapWp \/ WrapRp
  BY <1>2, PointersTurn, QueueStands
<1>3. CASE raced /\ raced'
  BY <1>3 DEF FrameQueueVars
<1>4. CASE StepWp /\ ~raced
  BY <1>4, WriterAnnounces DEF FrameQueue!Next
<1>5. CASE StepRp /\ ~raced
  BY <1>5, ReaderDelivers DEF FrameQueue!Next
<1>6. CASE CheckEmpty /\ ~raced
  <2>1. UNCHANGED <<wp, rp, received>>
    BY <1>6 DEF CheckEmpty
  <2>2. CASE raced'
    BY <1>6, <2>2 DEF FrameQueue!Next, FrameQueue!Trouble
  <2>3. CASE ~raced'
    <3>1. raced' = raced
      BY <1>6, <2>3 DEF ThreadInv, ThreadTypeOK
    <3> QED BY <2>1, <3>1, QueueStands
  <2> QED BY <2>2, <2>3
<1>7. raced => raced' \/ UNCHANGED threadVars
  BY Zenon DEF ThreadNext, Writer, Reader, CheckNext, CheckWrapped, Fill, StepWp, WrapWp,
     WrapRp, CheckEmpty, ReadFrame, StepRp, threadVars
<1> QED BY <1>1, <1>2, <1>3, <1>4, <1>5, <1>6, <1>7 DEF ThreadNext, Writer, Reader

LEMMA QueueStartsEmpty == ThreadInit => FrameQueue!Init
<1> SUFFICES ASSUME ThreadInit PROVE FrameQueue!Init
  OBVIOUS
<1>1. ThreadInv /\ ~raced
  BY ThreadInitially DEF ThreadInit
<1>2. AheadOf(wp, rp) = 0 /\ received = 0
  BY ThreadAssumption DEF ThreadInit, AheadOf, Turned
<1>3. Waiting = << >>
  BY <1>1, <1>2, WaitingIs, NumbersAreSeq
<1> QED BY <1>1, <1>2, <1>3 DEF FrameQueue!Init

(* Without a lock the two threads implement the queue of the driver's      *)
(* ring, each frame whole, once and in order, for a ring of any size,      *)
(* until the reader looks at wp in the middle of its wrap.                 *)
THEOREM ThreadsAreAQueue == ThreadSpec => ThreadsImplementQueue
<1>1. ThreadInv /\ ThreadInv' /\ [ThreadNext]_threadVars => [FrameQueue!Next]_FrameQueueVars
  BY ThreadsStepQueue
<1>2. ThreadSpec => []ThreadInv
  BY ThreadInitially, ThreadInvStays, PTL DEF ThreadSpec
<1> QED BY <1>1, <1>2, QueueStartsEmpty, PTL
     DEF ThreadSpec, ThreadsImplementQueue, FrameQueue!Spec, FrameQueueVars

-----------------------------------------------------------------------------
(* The list of the clients.  No node ever knows its predecessor, so that   *)
(* removing the first one is a pop, and as long as nothing else was done   *)
(* the list is the stack of the nodes, d, whose last is the first node.    *)
Stacked(d) ==
  /\ \A i, j \in 1 .. num : d[i] = d[j] => i = j
  /\ \A c \in nodes : \E i \in 1 .. num : d[i] = c
  /\ head = IF num = 0 THEN Nil ELSE d[num]
  /\ \A i \in 1 .. num : next[d[i]] = IF i = 1 THEN Nil ELSE d[i - 1]

NodesCounted ==
  /\ num = Cardinality(nodes) /\ prev = [c \in Clients |-> Nil]
  /\ backlog \cap nodes = {} /\ \A c \in backlog \cup nodes : conn[c] # "none"
  /\ pc \in {"read", "reply", "killed"} => cur \in nodes

(* Of each request the first part has been read, or both and it is         *)
(* replied to, or none.                                                    *)
PartsCounted ==
  \A c \in Clients :
    /\ taken[c] <= sent[c]
    /\ IF pc \in {"reply", "killed"} /\ c = cur
         THEN taken[c] = 2 * (replied[c] + 1)
         ELSE taken[c] \in {2 * replied[c], 2 * replied[c] + 1}

ServerInv ==
  /\ ServerTypeOK /\ NodesCounted /\ PartsCounted
  /\ ~slipped => pc # "corrupt" /\ \E d \in [1 .. num -> nodes] : Stacked(d)

(* Induction: a set that holds zero and with n also n + 1 holds them all.  *)
LEMMA Least == ASSUME NEW T, T \subseteq Nat, T # {} PROVE \E x \in T : \A y \in T : x <= y
<1>1. PICK x \in T : \A y \in T : ~(<<y, x>> \in OpToRel(<, Nat))
  BY NatLessThanWellFounded, WFMin, Zenon
<1>2. \A y \in T : ~(y < x)
  BY <1>1 DEF OpToRel
<1> QED BY <1>2

LEMMA Induct ==
  ASSUME NEW T, 0 \in T, \A n \in Nat : n \in T => n + 1 \in T
  PROVE  Nat \subseteq T
<1>1. SUFFICES ASSUME Nat \ T # {} PROVE FALSE
  OBVIOUS
<1>2. PICK x \in Nat \ T : \A y \in Nat \ T : x <= y
  BY <1>1, Least
<1>3. x # 0 /\ x - 1 \in Nat /\ x - 1 \notin Nat \ T
  BY <1>2
<1> QED BY <1>2, <1>3

(* What k steps from the head of the stack reach.                          *)
Top(d, k) == {d[i] : i \in {j \in 1 .. num : j >= num - k}}

LEMMA TopGrows ==
  ASSUME ServerTypeOK, num \in Nat, NEW d \in [1 .. num -> nodes], Stacked(d), NEW k \in Nat
  PROVE  /\ Top(d, 0) = {head} \ {Nil}
         /\ Top(d, k + 1) = Top(d, k) \cup ({next[c] : c \in Top(d, k) \cap nodes} \ {Nil})
         /\ k >= num => Top(d, k) = nodes
<1>0. nodes \subseteq Clients /\ Nil \notin nodes
  BY ServerAssumption DEF ServerTypeOK
<1>1. Top(d, 0) = {head} \ {Nil}
  <2>1. CASE num = 0
    BY <2>1 DEF Top, Stacked
  <2>2. CASE num # 0
    <3>1. \A j \in 1 .. num : j >= num - 0 <=> j = num
      OBVIOUS
    <3>2. Top(d, 0) = {d[num]}
      BY <2>2, <3>1 DEF Top
    <3>3. d[num] \in nodes /\ head = d[num]
      BY <2>2 DEF Stacked
    <3> QED BY <1>0, <3>2, <3>3
  <2> QED BY <2>1, <2>2
<1>2. Top(d, k + 1) \subseteq Top(d, k) \cup ({next[c] : c \in Top(d, k) \cap nodes} \ {Nil})
  <2> SUFFICES ASSUME NEW i \in 1 .. num, i >= num - (k + 1), d[i] \notin Top(d, k)
               PROVE  d[i] \in {next[c] : c \in Top(d, k) \cap nodes} \ {Nil}
    BY DEF Top
  <2>1. ~(i >= num - k)
    BY DEF Top
  <2>2. i + 1 \in 1 .. num /\ i + 1 >= num - k /\ i + 1 # 1 /\ (i + 1) - 1 = i
    BY <2>1
  <2>3. d[i + 1] \in Top(d, k) \cap nodes
    BY <2>2 DEF Top
  <2>4. next[d[i + 1]] = d[i]
    BY <2>2 DEF Stacked
  <2>5. d[i] # Nil
    BY <1>0
  <2> QED BY <2>3, <2>4, <2>5
<1>3. Top(d, k) \subseteq Top(d, k + 1)
  BY DEF Top
<1>4. ASSUME NEW c \in Top(d, k), next[c] # Nil PROVE next[c] \in Top(d, k + 1)
  <2>1. PICK i \in 1 .. num : i >= num - k /\ c = d[i]
    BY DEF Top
  <2>2. i # 1 /\ next[c] = d[i - 1]
    BY <1>4, <2>1 DEF Stacked
  <2>3. i - 1 \in 1 .. num /\ i - 1 >= num - (k + 1)
    BY <2>1, <2>2
  <2> QED BY <2>2, <2>3 DEF Top
<1>5. Top(d, k + 1) = Top(d, k) \cup ({next[c] : c \in Top(d, k) \cap nodes} \ {Nil})
  BY <1>2, <1>3, <1>4
<1>6. ASSUME k >= num PROVE Top(d, k) = nodes
  <2>1. \A j \in 1 .. num : j >= num - k
    BY <1>6
  <2>2. Top(d, k) = {d[i] : i \in 1 .. num}
    BY <2>1 DEF Top
  <2> QED BY <2>2 DEF Stacked
<1> QED BY <1>1, <1>5, <1>6

LEMMA ReachesIs ==
  (\E f : f = [k \in 0 .. Cardinality(Clients) |->
                 IF k = 0 THEN {head} \ {Nil}
                 ELSE f[k - 1] \cup ({next[c] : c \in f[k - 1] \cap nodes} \ {Nil})])
    => Reaches = [k \in 0 .. Cardinality(Clients) |->
                    IF k = 0 THEN {head} \ {Nil}
                    ELSE Reaches[k - 1]
                           \cup ({next[c] : c \in Reaches[k - 1] \cap nodes} \ {Nil})]
BY Zenon DEF Reaches

(* The loops over the list walk over the nodes and over nothing else.      *)
LEMMA StackIsWalked ==
  ASSUME ServerTypeOK, num = Cardinality(nodes),
         NEW d \in [1 .. num -> nodes], Stacked(d)
  PROVE  Walked = nodes
<1> DEFINE C == Cardinality(Clients)
<1>1. nodes \subseteq Clients /\ num \in Nat /\ C \in Nat /\ num <= C
  BY ServerAssumption, FS_Subset, FS_CardinalityType DEF ServerTypeOK
<1> HIDE DEF C
<1>2. /\ Top(d, 0) = {head} \ {Nil}
      /\ \A k \in Nat :
           Top(d, k + 1) = Top(d, k) \cup ({next[c] : c \in Top(d, k) \cap nodes} \ {Nil})
      /\ Top(d, C) = nodes
  BY <1>1, TopGrows
<1> DEFINE f == [k \in 0 .. C |-> Top(d, k)]
<1>3. f = [k \in 0 .. C |-> IF k = 0 THEN {head} \ {Nil}
             ELSE f[k - 1] \cup ({next[c] : c \in f[k - 1] \cap nodes} \ {Nil})]
  <2> SUFFICES ASSUME NEW k \in 0 .. C
               PROVE  Top(d, k) = IF k = 0 THEN {head} \ {Nil}
                        ELSE f[k - 1] \cup ({next[c] : c \in f[k - 1] \cap nodes} \ {Nil})
    OBVIOUS
  <2>1. CASE k = 0
    BY <1>2, <2>1
  <2>2. CASE k # 0
    <3>1. k - 1 \in Nat /\ k - 1 \in 0 .. C /\ (k - 1) + 1 = k
      BY <1>1, <2>2
    <3>2. f[k - 1] = Top(d, k - 1)
      BY <3>1
    <3>3. Top(d, (k - 1) + 1) = Top(d, k - 1)
            \cup ({next[c] : c \in Top(d, k - 1) \cap nodes} \ {Nil})
      BY <1>2, <3>1
    <3> QED BY <2>2, <3>1, <3>2, <3>3
  <2> QED BY <2>1, <2>2
<1> HIDE DEF f
<1>4. Reaches = [k \in 0 .. C |-> IF k = 0 THEN {head} \ {Nil}
        ELSE Reaches[k - 1] \cup ({next[c] : c \in Reaches[k - 1] \cap nodes} \ {Nil})]
  <2>1. \E g : g = [k \in 0 .. C |-> IF k = 0 THEN {head} \ {Nil}
                ELSE g[k - 1] \cup ({next[c] : c \in g[k - 1] \cap nodes} \ {Nil})]
    <3> WITNESS f
    <3> QED BY <1>3
  <2> QED BY <2>1, ReachesIs DEF C
<1> DEFINE T == {k \in Nat : k <= C => Reaches[k] = Top(d, k)}
<1>5. 0 \in T
  BY <1>1, <1>2, <1>4
<1>6. ASSUME NEW k \in Nat, k \in T PROVE k + 1 \in T
  <2> SUFFICES ASSUME k + 1 <= C PROVE Reaches[k + 1] = Top(d, k + 1)
    OBVIOUS
  <2>1. k + 1 \in 0 .. C /\ k + 1 # 0 /\ (k + 1) - 1 = k /\ k <= C
    BY <1>1
  <2>2. Reaches[k + 1] = Reaches[k] \cup ({next[c] : c \in Reaches[k] \cap nodes} \ {Nil})
    BY <1>4, <2>1
  <2>3. Reaches[k] = Top(d, k)
    BY <1>6, <2>1
  <2> QED BY <1>2, <2>2, <2>3
<1> HIDE DEF T
<1>7. Nat \subseteq T
  BY <1>5, <1>6, Induct
<1>8. Reaches[C] = Top(d, C)
  BY <1>1, <1>7 DEF T
<1> QED BY <1>2, <1>8 DEF Walked, C

LEMMA ServerFacts ==
  ASSUME ServerInv
  PROVE  /\ conn \in [Clients -> {"none", "open", "closed"}]
         /\ sent \in [Clients -> 0 .. 2 * MaxRequests]
         /\ taken \in [Clients -> 0 .. 2 * MaxRequests] /\ replied \in [Clients -> 0 .. MaxRequests]
         /\ next \in [Clients -> Clients \cup {Nil}] /\ prev \in [Clients -> Clients \cup {Nil}]
         /\ head \in Clients \cup {Nil} /\ nodes \subseteq Clients /\ backlog \subseteq Clients
         /\ cur \in Clients \cup {Nil} /\ after \in Clients \cup {Nil}
         /\ pc \in {"read", "reply", "killed"} => cur \in nodes /\ cur \in Clients
         /\ MaxRequests \in Nat /\ num \in Nat
<1>1. ServerTypeOK /\ NodesCounted
  BY DEF ServerInv
<1>2. num \in Nat
  BY <1>1 DEF ServerTypeOK
<1> QED BY <1>1, <1>2, ServerAssumption DEF ServerTypeOK, NodesCounted

(* dead_client changes no link: no node knows its predecessor.             *)
LEMMA UnlinkIs ==
  ASSUME ServerInv, NEW c \in nodes, Unlink(c)
  PROVE  /\ next' = next /\ prev' = prev /\ head' = (IF c = head THEN next[c] ELSE head)
         /\ nodes' = nodes \ {c} /\ num' = num - 1 /\ num' = Cardinality(nodes')
<1>1. c \in Clients /\ prev = [n \in Clients |-> Nil] /\ num = Cardinality(nodes)
      /\ next \in [Clients -> Clients \cup {Nil}] /\ IsFiniteSet(nodes)
  BY ServerFacts, ServerAssumption, FS_Subset DEF ServerInv, NodesCounted
<1>2. \A n \in Clients : prev[c] # n
  BY <1>1, ServerAssumption
<1>3. next' = [n \in Clients |-> next[n]]
  BY <1>2 DEF Unlink
<1>4. prev' = [n \in Clients |-> Nil]
  BY <1>1 DEF Unlink
<1>5. Cardinality(nodes \ {c}) = Cardinality(nodes) - 1
  BY <1>1, FS_RemoveElement
<1> QED BY <1>1, <1>3, <1>4, <1>5 DEF Unlink

LEMMA LinkIs ==
  ASSUME ServerInv, NEW c \in backlog, Link(c)
  PROVE  /\ next' = [next EXCEPT ![c] = head] /\ prev' = prev /\ head' = c
         /\ nodes' = nodes \cup {c} /\ num' = num + 1 /\ num' = Cardinality(nodes')
         /\ c \notin nodes /\ c \in Clients
<1>1. c \in Clients /\ prev = [n \in Clients |-> Nil] /\ num = Cardinality(nodes)
      /\ IsFiniteSet(nodes) /\ c \notin nodes
  BY ServerFacts, ServerAssumption, FS_Subset DEF ServerInv, NodesCounted
<1>2. prev' = [n \in Clients |-> Nil]
  BY <1>1 DEF Link
<1>3. Cardinality(nodes \cup {c}) = Cardinality(nodes) + 1
  BY <1>1, FS_AddElement
<1> QED BY <1>1, <1>2, <1>3 DEF Link

LEMMA NodesStayCounted == ServerInv /\ [ServerNext]_serverVars => NodesCounted'
<1> SUFFICES ASSUME ServerInv, [ServerNext]_serverVars PROVE NodesCounted'
  OBVIOUS
<1>0. /\ NodesCounted /\ conn \in [Clients -> {"none", "open", "closed"}]
      /\ nodes \subseteq Clients /\ backlog \subseteq Clients
  BY ServerFacts DEF ServerInv
<1>1. ASSUME NEW c \in Clients, Connect(c) PROVE NodesCounted'
  <2>1. c \notin nodes
    BY <1>0, <1>1 DEF NodesCounted, Connect
  <2>2. /\ UNCHANGED <<prev, num, nodes, pc, cur>> /\ backlog' = backlog \cup {c}
        /\ conn' = [conn EXCEPT ![c] = "open"]
    BY <1>1 DEF Connect, list, loop
  <2> QED BY <1>0, <2>1, <2>2 DEF NodesCounted
<1>2. ASSUME NEW c \in Clients, SendPart(c) PROVE NodesCounted'
  BY <1>0, <1>2 DEF NodesCounted, SendPart, list, loop
<1>3. ASSUME NEW c \in Clients, Close(c) PROVE NodesCounted'
  <2>1. /\ UNCHANGED <<prev, num, nodes, pc, cur, backlog>>
        /\ conn' = [conn EXCEPT ![c] = "closed"]
    BY <1>3 DEF Close, list, loop
  <2> QED BY <1>0, <2>1 DEF NodesCounted
<1>4. CASE Poll \/ ScanNode \/ ScanEnd \/ ReplyKills \/ ReadPart
  <2>1. UNCHANGED <<prev, num, nodes, backlog, conn>>
    BY <1>4 DEF Poll, ScanNode, ScanEnd, ReplyKills, ReadPart, client, list
  <2>2. pc' \in {"read", "reply", "killed"} => cur' \in nodes
    BY <1>0, <1>4 DEF Poll, ScanNode, ScanEnd, ReplyKills, ReadPart, NodesCounted
  <2> QED BY <1>0, <2>1, <2>2 DEF NodesCounted
<1>5. CASE ReadEnd
  <2>1. cur \in nodes /\ Unlink(cur) /\ UNCHANGED <<backlog, conn>> /\ pc' = "scan"
    BY <1>0, <1>5 DEF ReadEnd, Done, client, NodesCounted
  <2>2. nodes' = nodes \ {cur} /\ prev' = prev /\ num' = Cardinality(nodes')
    BY <2>1, UnlinkIs
  <2> QED BY <1>0, <2>1, <2>2 DEF NodesCounted
<1>6. CASE Reply
  BY <1>0, <1>6 DEF NodesCounted, Reply, Done, list
<1>7. CASE Accept
  <2>1. pc' = "poll" /\ UNCHANGED conn
    BY <1>7 DEF Accept
  <2>2. CASE Nil \in ready
    <3>1. PICK c \in backlog : Link(c) /\ backlog' = backlog \ {c}
      BY <1>7, <2>2 DEF Accept
    <3>2. nodes' = nodes \cup {c} /\ prev' = prev /\ num' = Cardinality(nodes')
      BY <3>1, LinkIs
    <3> QED BY <1>0, <2>1, <3>1, <3>2 DEF NodesCounted
  <2>3. CASE Nil \notin ready
    BY <1>0, <1>7, <2>1, <2>3 DEF Accept, list, NodesCounted
  <2> QED BY <2>2, <2>3
<1>8. CASE UNCHANGED serverVars
  BY <1>0, <1>8 DEF serverVars, client, list, loop, NodesCounted
<1> QED BY <1>1, <1>2, <1>3, <1>4, <1>5, <1>6, <1>7, <1>8 DEF ServerNext, Serve

LEMMA PartsSame ==
  ASSUME PartsCounted, UNCHANGED <<sent, taken, replied>>,
         \/ pc' \in {"reply", "killed"} /\ pc \in {"reply", "killed"} /\ cur' = cur
         \/ pc' \notin {"reply", "killed"} /\ pc \notin {"reply", "killed"}
  PROVE  PartsCounted'
BY DEF PartsCounted

LEMMA PartsStayCounted == ServerInv /\ [ServerNext]_serverVars => PartsCounted'
<1> SUFFICES ASSUME ServerInv, [ServerNext]_serverVars PROVE PartsCounted'
  OBVIOUS
<1>0. /\ PartsCounted
      /\ sent \in [Clients -> 0 .. 2 * MaxRequests]
      /\ taken \in [Clients -> 0 .. 2 * MaxRequests]
      /\ replied \in [Clients -> 0 .. MaxRequests] /\ MaxRequests \in Nat
      /\ \A c \in Clients : sent[c] \in Nat /\ taken[c] \in Nat /\ replied[c] \in Nat
  <2>1. \A c \in Clients : sent[c] \in Nat /\ taken[c] \in Nat /\ replied[c] \in Nat
    BY ServerFacts
  <2> QED BY <2>1, ServerFacts DEF ServerInv
<1>1. ASSUME NEW c \in Clients, Connect(c) \/ Close(c) PROVE PartsCounted'
  BY <1>0, <1>1, PartsSame DEF Connect, Close, loop
<1>2. ASSUME NEW c \in Clients, SendPart(c) PROVE PartsCounted'
  <2>1. UNCHANGED <<taken, replied, pc, cur>> /\ sent' = [sent EXCEPT ![c] = @ + 1]
    BY <1>2 DEF SendPart, loop
  <2>2. \A x \in Clients : sent'[x] >= sent[x] /\ sent'[x] \in Nat
    BY <1>0, <2>1
  <2> QED BY <1>0, <2>1, <2>2 DEF PartsCounted
<1>3. CASE Poll \/ ScanNode \/ ScanEnd \/ ReplyKills
  <2>1. UNCHANGED <<sent, taken, replied>>
    BY <1>3 DEF Poll, ScanNode, ScanEnd, ReplyKills, client
  <2> QED BY <1>0, <1>3, <2>1, PartsSame DEF Poll, ScanNode, ScanEnd, ReplyKills
<1>4. CASE ReadPart
  <2>1. /\ pc = "read" /\ sent[cur] > taken[cur] /\ UNCHANGED <<sent, replied, cur>>
        /\ taken' = [taken EXCEPT ![cur] = @ + 1] /\ cur \in Clients
        /\ pc' = IF taken'[cur] % 2 = 0 THEN "reply" ELSE "read"
    BY <1>4, ServerFacts DEF ReadPart, client
  <2>2. /\ taken'[cur] = taken[cur] + 1 /\ taken[cur] + 1 <= sent[cur]
        /\ taken[cur] \in {2 * replied[cur], 2 * replied[cur] + 1}
        /\ \A c \in Clients : c # cur => taken'[c] = taken[c]
    BY <1>0, <2>1 DEF PartsCounted
  <2>3. IF taken'[cur] % 2 = 0 THEN taken'[cur] = 2 * (replied[cur] + 1)
                               ELSE taken'[cur] = 2 * replied[cur] + 1
    <3>1. \A r \in Nat : (2 * r + 1) % 2 = 1 /\ (2 * r + 2) % 2 = 0
      OBVIOUS
    <3>2. replied[cur] \in Nat
      BY <1>0, <2>1
    <3> QED BY <2>2, <3>1, <3>2
  <2> SUFFICES ASSUME NEW c \in Clients
               PROVE  /\ taken'[c] <= sent[c]
                      /\ IF pc' \in {"reply", "killed"} /\ c = cur
                           THEN taken'[c] = 2 * (replied[c] + 1)
                           ELSE taken'[c] \in {2 * replied[c], 2 * replied[c] + 1}
    BY <2>1 DEF PartsCounted
  <2>4. CASE c = cur
    BY <2>1, <2>2, <2>3, <2>4
  <2>5. CASE c # cur
    BY <1>0, <2>1, <2>2, <2>5 DEF PartsCounted
  <2> QED BY <2>4, <2>5
<1>5. CASE ReadEnd
  BY <1>0, <1>5, PartsSame DEF ReadEnd, Done, client
<1>6. CASE Reply
  <2>1. /\ pc = "reply" /\ pc' = "scan" /\ UNCHANGED <<sent, taken>> /\ cur \in Clients
        /\ replied' = [replied EXCEPT ![cur] = @ + 1]
    BY <1>6, ServerFacts DEF Reply, Done
  <2>2. taken[cur] = 2 * (replied[cur] + 1) /\ replied'[cur] = replied[cur] + 1
        /\ \A c \in Clients : c # cur => replied'[c] = replied[c]
    BY <1>0, <2>1 DEF PartsCounted
  <2> QED BY <1>0, <2>1, <2>2 DEF PartsCounted
<1>7. CASE Accept
  BY <1>0, <1>7, PartsSame DEF Accept
<1>8. CASE UNCHANGED serverVars
  BY <1>0, <1>8 DEF serverVars, client, loop, PartsCounted
<1> QED BY <1>1, <1>2, <1>3, <1>4, <1>5, <1>6, <1>7, <1>8 DEF ServerNext, Serve

LEMMA ServerTypesStay == ServerInv /\ [ServerNext]_serverVars => ServerTypeOK'
<1> SUFFICES ASSUME ServerInv, [ServerNext]_serverVars PROVE ServerTypeOK'
  OBVIOUS
<1>0. /\ conn \in [Clients -> {"none", "open", "closed"}]
      /\ sent \in [Clients -> 0 .. 2 * MaxRequests]
      /\ taken \in [Clients -> 0 .. 2 * MaxRequests] /\ replied \in [Clients -> 0 .. MaxRequests]
      /\ next \in [Clients -> Clients \cup {Nil}] /\ prev \in [Clients -> Clients \cup {Nil}]
      /\ head \in Clients \cup {Nil} /\ nodes \subseteq Clients /\ backlog \subseteq Clients
      /\ pc \in {"read", "reply", "killed"} => cur \in nodes /\ cur \in Clients
      /\ MaxRequests \in Nat /\ ServerTypeOK /\ PartsCounted
  BY ServerFacts DEF ServerInv
<1>1. ASSUME NEW c \in Clients, Connect(c) \/ SendPart(c) \/ Close(c) PROVE ServerTypeOK'
  <2>1. UNCHANGED <<replied, taken, list, loop, slipped>>
    BY <1>1 DEF Connect, SendPart, Close
  <2>2. conn' \in [Clients -> {"none", "open", "closed"}] /\ backlog' \subseteq Clients
    BY <1>0, <1>1 DEF Connect, SendPart, Close
  <2>3. sent' \in [Clients -> 0 .. 2 * MaxRequests]
    BY <1>0, <1>1 DEF Connect, SendPart, Close
  <2> QED BY <1>0, <2>1, <2>2, <2>3 DEF ServerTypeOK, list, loop
<1>2. CASE Poll
  <2>1. UNCHANGED <<client, taken, list, after, slipped>>
    BY <1>2 DEF Poll
  <2>2. /\ pc' \in {"scan", "corrupt"} /\ cur' \in Clients \cup {Nil}
        /\ ready' \subseteq Clients \cup {Nil}
    BY <1>0, <1>2 DEF Poll, ServerTypeOK
  <2> QED BY <1>0, <2>1, <2>2 DEF ServerTypeOK, client, list, Stopped
<1>3. CASE ScanNode \/ ScanEnd \/ ReplyKills
  <2>1. UNCHANGED <<client, taken, list, ready, slipped>>
    BY <1>3 DEF ScanNode, ScanEnd, ReplyKills
  <2>2. /\ pc' \in {"scan", "read", "accept", "killed"} /\ cur' \in Clients \cup {Nil}
        /\ after' \in Clients \cup {Nil}
    BY <1>0, <1>3 DEF ScanNode, ScanEnd, ReplyKills, ServerTypeOK
  <2> QED BY <1>0, <2>1, <2>2 DEF ServerTypeOK, client, list, Stopped
<1>4. CASE ReadPart
  <2>1. /\ UNCHANGED <<client, list, cur, after, ready, slipped>> /\ cur \in Clients
        /\ pc' \in {"reply", "read"} /\ sent[cur] > taken[cur]
        /\ taken' = [taken EXCEPT ![cur] = @ + 1]
    BY <1>0, <1>4 DEF ReadPart
  <2>2. taken[cur] + 1 \in 0 .. 2 * MaxRequests
    BY <1>0, <2>1
  <2>3. taken' \in [Clients -> 0 .. 2 * MaxRequests]
    BY <1>0, <2>1, <2>2
  <2> QED BY <1>0, <2>1, <2>3 DEF ServerTypeOK, client, list
<1>5. CASE ReadEnd
  <2>1. /\ pc = "read" /\ cur \in nodes /\ Unlink(cur) /\ UNCHANGED <<client, taken, after, ready>>
        /\ cur' = after /\ pc' = "scan"
    BY <1>0, <1>5 DEF ReadEnd, Done
  <2>2. slipped' \in BOOLEAN
    BY <1>5, Zenon DEF ReadEnd
  <2>3. /\ next' = next /\ prev' = prev /\ nodes' \subseteq Clients
        /\ head' \in Clients \cup {Nil} /\ num' = Cardinality(nodes')
    BY <1>0, <2>1, UnlinkIs
  <2>4. num' \in 0 .. Cardinality(Clients)
    BY <2>3, ServerAssumption, FS_Subset, FS_CardinalityType
  <2> QED BY <1>0, <2>1, <2>2, <2>3, <2>4 DEF ServerTypeOK, client
<1>6. CASE Reply
  <2>1. /\ pc = "reply" /\ cur \in Clients /\ replied' = [replied EXCEPT ![cur] = @ + 1]
        /\ cur' = after /\ pc' = "scan"
        /\ UNCHANGED <<conn, backlog, sent, taken, list, after, ready, slipped>>
    BY <1>0, <1>6 DEF Reply, Done
  <2>2. taken[cur] = 2 * (replied[cur] + 1) /\ taken[cur] \in 0 .. 2 * MaxRequests
        /\ replied[cur] \in Nat
    BY <1>0, <2>1 DEF PartsCounted
  <2>3. replied[cur] + 1 \in 0 .. MaxRequests
    BY <1>0, <2>2
  <2>4. replied' \in [Clients -> 0 .. MaxRequests]
    BY <1>0, <2>1, <2>3
  <2> QED BY <1>0, <2>1, <2>4 DEF ServerTypeOK, list
<1>7. CASE Accept
  <2>1. pc' = "poll" /\ UNCHANGED <<conn, sent, taken, replied, cur, after, ready, slipped>>
    BY <1>7 DEF Accept
  <2>2. CASE Nil \in ready
    <3>1. PICK c \in backlog : Link(c) /\ backlog' = backlog \ {c}
      BY <1>7, <2>2 DEF Accept
    <3>2. /\ next' \in [Clients -> Clients \cup {Nil}] /\ prev' = prev /\ nodes' \subseteq Clients
          /\ head' \in Clients \cup {Nil} /\ num' = Cardinality(nodes')
      BY <1>0, <3>1, LinkIs
    <3>3. num' \in 0 .. Cardinality(Clients)
      BY <3>2, ServerAssumption, FS_Subset, FS_CardinalityType
    <3> QED BY <1>0, <2>1, <3>1, <3>2, <3>3 DEF ServerTypeOK
  <2>3. CASE Nil \notin ready
    BY <1>0, <1>7, <2>1, <2>3 DEF Accept, list, ServerTypeOK
  <2> QED BY <2>2, <2>3
<1>8. CASE UNCHANGED serverVars
  BY <1>0, <1>8 DEF serverVars, client, list, loop, ServerTypeOK
<1> QED BY <1>1, <1>2, <1>3, <1>4, <1>5, <1>6, <1>7, <1>8 DEF ServerNext, Serve

(* Accepting is a push, ...                                                *)
LEMMA StackPush ==
  ASSUME ServerInv, NEW d \in [1 .. num -> nodes], Stacked(d), NEW c \in backlog, Link(c)
  PROVE  \E e \in [1 .. num' -> nodes'] : Stacked(e)'
<1>1. /\ next' = [next EXCEPT ![c] = head] /\ head' = c /\ nodes' = nodes \cup {c}
      /\ num' = num + 1 /\ c \notin nodes /\ c \in Clients /\ nodes \subseteq Clients
      /\ num \in Nat /\ next \in [Clients -> Clients \cup {Nil}]
  BY LinkIs, ServerFacts
<1>2. PICK e \in [1 .. num' -> nodes'] :
        /\ e[num + 1] = c
        /\ \A i \in 1 .. num : e[i] = d[i] /\ e[i] # c /\ e[i] \in Clients
  <2> DEFINE f == [i \in 1 .. num + 1 |-> IF i = num + 1 THEN c ELSE d[i]]
  <2>1. /\ f \in [1 .. num' -> nodes'] /\ f[num + 1] = c
        /\ \A i \in 1 .. num : f[i] = d[i] /\ f[i] # c /\ f[i] \in Clients
    BY <1>1
  <2> HIDE DEF f
  <2> QED BY <2>1
<1>3. ASSUME NEW i \in 1 .. num', NEW j \in 1 .. num', e[i] = e[j] PROVE i = j
  <2>1. (i = num + 1 \/ i \in 1 .. num) /\ (j = num + 1 \/ j \in 1 .. num)
    BY <1>1
  <2> QED BY <1>2, <1>3, <2>1 DEF Stacked
<1>4. ASSUME NEW x \in nodes' PROVE \E i \in 1 .. num' : e[i] = x
  <2>1. CASE x = c
    BY <1>1, <1>2, <2>1
  <2>2. CASE x # c
    <3>1. PICK i \in 1 .. num : d[i] = x
      BY <1>1, <1>4, <2>2 DEF Stacked
    <3>2. i \in 1 .. num' /\ e[i] = x
      BY <1>1, <1>2, <3>1
    <3> QED BY <3>2
  <2> QED BY <2>1, <2>2
<1>5. ASSUME NEW i \in 1 .. num' PROVE next'[e[i]] = IF i = 1 THEN Nil ELSE e[i - 1]
  <2>1. CASE i = num + 1
    <3>1. next'[e[i]] = head
      BY <1>1, <1>2, <2>1
    <3>2. num # 0 => i - 1 = num /\ num \in 1 .. num /\ i # 1
      BY <1>1, <2>1
    <3>3. num = 0 => i = 1
      BY <2>1
    <3> QED BY <1>2, <3>1, <3>2, <3>3 DEF Stacked
  <2>2. CASE i \in 1 .. num
    <3>1. next'[e[i]] = next[d[i]]
      BY <1>1, <1>2, <2>2
    <3>2. i # 1 => i - 1 \in 1 .. num
      BY <1>1, <2>2
    <3> QED BY <1>2, <2>2, <3>1, <3>2 DEF Stacked
  <2> QED BY <1>1, <2>1, <2>2
<1>6. head' = IF num' = 0 THEN Nil ELSE e[num']
  BY <1>1, <1>2
<1>7. Stacked(e)'
  BY <1>3, <1>4, <1>5, <1>6 DEF Stacked
<1> QED BY <1>2, <1>7

(* ... and the loss of the first client a pop.                             *)
LEMMA StackPop ==
  ASSUME ServerInv, NEW d \in [1 .. num -> nodes], Stacked(d), head \in nodes, Unlink(head)
  PROVE  \E e \in [1 .. num' -> nodes'] : Stacked(e)'
<1>1. /\ next' = next /\ head' = next[head] /\ nodes' = nodes \ {head}
      /\ num' = num - 1 /\ num \in Nat /\ Nil \notin nodes
  BY UnlinkIs, ServerFacts, ServerAssumption
<1>2. num # 0 /\ head = d[num] /\ num \in 1 .. num
  BY <1>1 DEF Stacked
<1>3. \A i \in 1 .. num' : i \in 1 .. num /\ i # num /\ d[i] \in nodes'
  BY <1>1, <1>2 DEF Stacked
<1>4. PICK e \in [1 .. num' -> nodes'] :
        \A i \in 1 .. num' : i \in 1 .. num /\ e[i] = d[i] /\ i # num
  <2> DEFINE f == [i \in 1 .. num - 1 |-> d[i]]
  <2>1. f \in [1 .. num' -> nodes'] /\ \A i \in 1 .. num' : f[i] = d[i]
    BY <1>1, <1>3
  <2> HIDE DEF f
  <2> QED BY <1>3, <2>1
<1>5. ASSUME NEW x \in nodes' PROVE \E i \in 1 .. num' : e[i] = x
  <2>1. PICK i \in 1 .. num : d[i] = x
    BY <1>1, <1>5 DEF Stacked
  <2>2. i # num
    BY <1>1, <1>2, <1>5, <2>1
  <2>3. i \in 1 .. num'
    BY <1>1, <2>2
  <2> QED BY <1>4, <2>1, <2>3
<1>6. ASSUME NEW i \in 1 .. num' PROVE next'[e[i]] = IF i = 1 THEN Nil ELSE e[i - 1]
  <2>1. i # 1 => i - 1 \in 1 .. num'
    BY <1>1
  <2> QED BY <1>1, <1>4, <2>1 DEF Stacked
<1>7. head' = IF num' = 0 THEN Nil ELSE e[num']
  <2>1. next[head] = IF num = 1 THEN Nil ELSE d[num - 1]
    BY <1>2 DEF Stacked
  <2>2. num' # 0 => num' \in 1 .. num'
    BY <1>1, <1>2
  <2>3. num' = 0 <=> num = 1
    BY <1>1
  <2> QED BY <1>1, <1>4, <2>1, <2>2, <2>3
<1>8. \A i, j \in 1 .. num' : e[i] = e[j] => i = j
  BY <1>4 DEF Stacked
<1>9. Stacked(e)'
  BY <1>5, <1>6, <1>7, <1>8 DEF Stacked
<1> QED BY <1>9

LEMMA ListStays ==
  ServerInv /\ [ServerNext]_serverVars /\ ~slipped'
    => pc' # "corrupt" /\ \E d \in [1 .. num' -> nodes'] : Stacked(d)'
<1> SUFFICES ASSUME ServerInv, [ServerNext]_serverVars, ~slipped'
             PROVE  pc' # "corrupt" /\ \E d \in [1 .. num' -> nodes'] : Stacked(d)'
  OBVIOUS
<1>1. ~slipped
  BY Zenon DEF ServerNext, Serve, Connect, SendPart, Close, Poll, ScanNode, ScanEnd, ReadPart,
     ReadEnd, Reply, ReplyKills, Accept, serverVars
<1>2. PICK d \in [1 .. num -> nodes] : Stacked(d)
  BY <1>1 DEF ServerInv
<1>3. pc # "corrupt" /\ ServerTypeOK /\ num = Cardinality(nodes)
  BY <1>1 DEF ServerInv, NodesCounted
<1>4. ASSUME UNCHANGED list PROVE \E e \in [1 .. num' -> nodes'] : Stacked(e)'
  <2>1. num' = num /\ nodes' = nodes /\ head' = head /\ next' = next
    BY <1>4 DEF list
  <2>2. Stacked(d)'
    BY <1>2, <2>1 DEF Stacked
  <2> QED BY <1>2, <2>1, <2>2
<1>5. ASSUME NEW c \in Clients, Connect(c) \/ SendPart(c) \/ Close(c)
      PROVE  UNCHANGED list /\ pc' = pc
  BY <1>5 DEF Connect, SendPart, Close, loop
<1>6. CASE Poll
  <2>1. Walked = nodes
    BY <1>2, <1>3, StackIsWalked
  <2>2. UNCHANGED list /\ pc' = "scan"
    BY <1>6, <2>1 DEF Poll
  <2> QED BY <1>4, <2>2
<1>7. CASE ScanNode \/ ScanEnd \/ ReadPart \/ Reply \/ ReplyKills
  <2>1. UNCHANGED list /\ pc' # "corrupt"
    BY <1>3, <1>7 DEF ScanNode, ScanEnd, ReadPart, Reply, ReplyKills, Done
  <2> QED BY <1>4, <2>1
<1>8. CASE ReadEnd
  <2>1. pc = "read" /\ Unlink(cur) /\ pc' = "scan"
    BY <1>8 DEF ReadEnd, Done
  <2>2. cur = head
    BY <1>8, Zenon DEF ReadEnd
  <2>3. head \in nodes
    BY <2>1, <2>2, ServerFacts
  <2> QED BY <1>2, <2>1, <2>2, <2>3, StackPop
<1>9. CASE Accept
  <2>1. pc' = "poll"
    BY <1>9 DEF Accept
  <2>2. CASE Nil \in ready
    <3>1. PICK c \in backlog : Link(c)
      BY <1>9, <2>2 DEF Accept
    <3> QED BY <1>2, <2>1, <3>1, StackPush
  <2>3. CASE Nil \notin ready
    BY <1>4, <1>9, <2>1, <2>3 DEF Accept
  <2> QED BY <2>2, <2>3
<1>10. CASE UNCHANGED serverVars
  BY <1>3, <1>4, <1>10 DEF serverVars, list, loop
<1> QED BY <1>3, <1>4, <1>5, <1>6, <1>7, <1>8, <1>9, <1>10 DEF ServerNext, Serve

LEMMA ServerInvStays == ServerInv /\ [ServerNext]_serverVars => ServerInv'
<1>1. ServerInv' <=> /\ ServerTypeOK' /\ NodesCounted' /\ PartsCounted'
                     /\ ~slipped' => pc' # "corrupt"
                                     /\ \E d \in [1 .. num' -> nodes'] : Stacked(d)'
  BY DEF ServerInv
<1> QED BY <1>1, ServerTypesStay, NodesStayCounted, PartsStayCounted, ListStays

LEMMA ServerInitially == ServerInit => ServerInv
<1> SUFFICES ASSUME ServerInit PROVE ServerInv
  OBVIOUS
<1>1. Cardinality({}) = 0 /\ 0 \in 0 .. Cardinality(Clients)
      /\ 0 \in 0 .. MaxRequests /\ 0 \in 0 .. 2 * MaxRequests
  BY ServerAssumption, FS_EmptySet, FS_CardinalityType
<1>2. ServerTypeOK
  BY <1>1 DEF ServerInit, ServerTypeOK
<1>3. NodesCounted /\ PartsCounted
  BY <1>1 DEF ServerInit, NodesCounted, PartsCounted
<1> DEFINE d == [i \in 1 .. 0 |-> Nil]
<1>4. d \in [1 .. num -> nodes] /\ Stacked(d)
  BY DEF ServerInit, Stacked
<1> HIDE DEF d
<1> QED BY <1>2, <1>3, <1>4 DEF ServerInit, ServerInv

(* As long as only first clients have gone the list leads to the clients   *)
(* and to nothing else, for any number of them: the loops of process()     *)
(* never follow a pointer into freed memory.                               *)
THEOREM ListLeadsToClients == ServerSpec => []ListIsSound
<1>1. ServerInv => ListIsSound
  BY StackIsWalked DEF ServerInv, NodesCounted, ListIsSound
<1> QED BY <1>1, ServerInitially, ServerInvStays, PTL DEF ServerSpec, ServerSafety

-----------------------------------------------------------------------------
(* The four together, as they are run.                                     *)
ProgramsInv == ServerInv /\ TagInv /\ ThreadInv /\ StateInv

LEMMA ProgramsInvStays == ProgramsInv /\ [ProgramsNext]_vars => ProgramsInv'
<1> SUFFICES ASSUME ProgramsInv, [ProgramsNext]_vars PROVE ProgramsInv'
  OBVIOUS
<1>1. /\ [ServerNext]_serverVars /\ [TagNext]_tagVars
      /\ [ThreadNext]_threadVars /\ [StateNext]_stateVars
  BY DEF ProgramsNext, InServer, InTag, InThreads, InState, vars
<1> QED BY <1>1, ServerInvStays, TagInvStays, ThreadInvStays, StateInvStays DEF ProgramsInv

LEMMA ProgramsInitially == ProgramsInit => ProgramsInv
BY ServerInitially, TagInitially, ThreadInitially, StateInitially DEF ProgramsInit, ProgramsInv

(* The four programs keep their types.                                     *)
THEOREM ProgramsTypesHold == ProgramsSpec => []ProgramsTypeOK
<1>1. ProgramsInv => ProgramsTypeOK
  BY DEF ProgramsInv, ServerInv, TagInv, ThreadInv, StateInv, ProgramsTypeOK
<1> QED BY <1>1, ProgramsInitially, ProgramsInvStays, PTL DEF ProgramsSpec

(* Each of them keeps its promise in that composition: the table of tags,  *)
(* the list of the clients, the states of the system, ...                  *)
THEOREM ProgramsAreSafe ==
  ProgramsSpec => [](TiesAreRequests /\ ListIsSound /\ OperationalIsWarm)
<1>1. ProgramsInv => TiesAreRequests /\ ListIsSound /\ OperationalIsWarm
  BY StackIsWalked DEF ProgramsInv, ServerInv, NodesCounted, ListIsSound, TagInv, OneUse,
                       TiesAreRequests, StateInv
<1> QED BY <1>1, ProgramsInitially, ProgramsInvStays, PTL DEF ProgramsSpec

(* ... and the two threads, which implement the queue.                     *)
THEOREM ProgramsQueue == ProgramsSpec => ThreadsImplementQueue
<1>1. ProgramsInv /\ ProgramsInv' /\ [ProgramsNext]_vars => [FrameQueue!Next]_FrameQueueVars
  <2> SUFFICES ASSUME ProgramsInv, ProgramsInv', [ProgramsNext]_vars
               PROVE  [FrameQueue!Next]_FrameQueueVars
    OBVIOUS
  <2>1. [ThreadNext]_threadVars
    BY DEF ProgramsNext, InServer, InTag, InThreads, InState, vars
  <2> QED BY <2>1, ThreadsStepQueue DEF ProgramsInv
<1>2. ProgramsInit => FrameQueue!Init
  BY QueueStartsEmpty DEF ProgramsInit
<1>3. ProgramsSpec => []ProgramsInv
  BY ProgramsInitially, ProgramsInvStays, PTL DEF ProgramsSpec
<1> QED BY <1>1, <1>2, <1>3, PTL
     DEF ProgramsSpec, ThreadsImplementQueue, FrameQueue!Spec, FrameQueueVars

=============================================================================
