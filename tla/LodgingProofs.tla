---------------------------- MODULE LodgingProofs ----------------------------
(***************************************************************************)
(* Proofs about LodgingBoard: the timeline shows where everyone is as soon *)
(* as nothing is on its way, no refetch of this page's lands under a move, *)
(* and every stay it sends is drawn, for any campers, units, days, moves   *)
(* and others' moves.  And about EventImport, which recreates an event's   *)
(* lodging with its records: an import that says it succeeded leaves the   *)
(* event as declared, for any records, lodging tree, samples and number of *)
(* runs that failed before it.                                             *)
(***************************************************************************)
EXTENDS LodgingBoard, EventImport, NaturalsInduction, WellFoundedInduction, TLAPS

-----------------------------------------------------------------------------
(* First and last days.                                                      *)
LEMMA Smallest ==
  ASSUME NEW S \in SUBSET Nat, S # {}
  PROVE  \E x \in S : \A y \in S : x <= y
<1>1. PICK x \in S : \A y \in S : ~(<<y, x>> \in OpToRel(<, Nat))
  <2>1. IsWellFoundedOn(OpToRel(<, Nat), Nat)
    BY NatLessThanWellFounded
  <2> QED BY <2>1, WFMin
<1>2. \A y \in S : ~(y < x)
  BY <1>1 DEF OpToRel
<1> QED BY <1>2

LEMMA MinIs ==
  ASSUME NEW S \in SUBSET Nat, S # {}
  PROVE  Min(S) \in S /\ \A y \in S : Min(S) <= y
<1>1. \E x \in S : \A y \in S : x <= y
  BY Smallest
<1> QED BY <1>1 DEF Min

LEMMA MaxIs ==
  ASSUME NEW n \in Nat, NEW S \in SUBSET (1..n), S # {}
  PROVE  Max(S) \in S /\ \A y \in S : Max(S) >= y
<1> DEFINE T == {n - x : x \in S}
<1>0. \A x \in S : n - x \in Nat /\ n - x \in T /\ x \in Int
  OBVIOUS
<1>1. T \in SUBSET Nat /\ T # {}
  BY <1>0
<1>2. PICK t \in T : \A y \in T : t <= y
  BY <1>1, Smallest
<1>3. PICK x \in S : t = n - x
  OBVIOUS
<1> HIDE DEF T
<1>4. \A y \in S : n - x <= n - y
  BY <1>0, <1>2, <1>3
<1>5. \A y \in S : x >= y
  BY <1>0, <1>4
<1> QED BY <1>5 DEF Max

(* The larger and the smaller of two.                                        *)
LEMMA OfTwo ==
  ASSUME NEW a \in Int, NEW b \in Int
  PROVE  /\ Max({a, b}) = IF a >= b THEN a ELSE b
         /\ Min({a, b}) = IF a <= b THEN a ELSE b
<1>1. /\ \E x \in {a, b} : \A y \in {a, b} : x >= y
      /\ \E x \in {a, b} : \A y \in {a, b} : x <= y
  OBVIOUS
<1>2. /\ Max({a, b}) \in {a, b} /\ \A y \in {a, b} : Max({a, b}) >= y
      /\ Min({a, b}) \in {a, b} /\ \A y \in {a, b} : Min({a, b}) <= y
  BY <1>1 DEF Max, Min
<1> QED BY <1>2

-----------------------------------------------------------------------------
(* Stays.                                                                    *)
LastStay == IF Days > 1 THEN Days - 1 ELSE Days

LEMMA StayableAre ==
  /\ Days \in Nat /\ LastStay \in 1..Days /\ StayableDays = 1..LastStay
  /\ Max(StayableDays) = LastStay /\ StayableDays \subseteq AllDays
<1>1. Days \in Nat /\ LastStay \in 1..Days /\ StayableDays = 1..LastStay
  BY BoardAssumption DEF StayableDays, AllDays, LastStay
<1> HIDE DEF LastStay
<1>2. 1..LastStay # {} /\ 1..LastStay \subseteq 1..Days /\ LastStay \in 1..LastStay
  BY <1>1
<1>3. Max(1..LastStay) \in 1..LastStay /\ Max(1..LastStay) >= LastStay
  BY <1>1, <1>2, MaxIs
<1> QED BY <1>1, <1>2, <1>3 DEF AllDays

(* A bar that is drawn starts on a day one can stay.                         *)
LEMMA BarIs ==
  ASSUME NEW stay \in SUBSET AllDays, HasStayDays(stay)
  PROVE  StayStart(stay) \in StayableDays /\ StayStart(stay) \in AllDays /\ StayLength(stay) \in AllDays
<1>1. PICK d \in stay : d \in 1..LastStay
  BY StayableAre DEF HasStayDays
<1>2. stay \in SUBSET Nat /\ stay # {} /\ stay \in SUBSET (1..Days)
  BY DEF AllDays
<1>3. Min(stay) \in stay /\ Min(stay) <= d
  BY <1>1, <1>2, MinIs
<1>4. Max(stay) \in stay /\ Max(stay) >= Min(stay)
  BY <1>2, <1>3, MaxIs, StayableAre
<1>5. Min(stay) \in 1..Days /\ Max(stay) \in 1..Days
  BY <1>2, <1>3, <1>4
<1>6. /\ Days \in Nat /\ LastStay \in Nat /\ LastStay <= Days
      /\ StayableDays = 1..LastStay /\ AllDays = 1..Days
  BY StayableAre DEF AllDays
<1>7. StayStart(stay) \in 1..LastStay
  BY <1>1, <1>3, <1>5, <1>6 DEF StayStart
<1>8. StayLength(stay) \in 1..Days
  BY <1>4, <1>5, <1>6 DEF StayLength
<1> QED BY <1>5, <1>6, <1>7, <1>8 DEF StayStart

LEMMA DroppedIsDrawn ==
  ASSUME NEW day \in StayableDays, NEW length \in Int
  PROVE  /\ StayFrom(StayableDays, day, length) # {}
         /\ StayFrom(StayableDays, day, length) \subseteq StayableDays
<1>1. day \in Nat /\ day <= Max(StayableDays)
  BY StayableAre
<1>2. day \in StayFrom(StayableDays, day, length)
  BY <1>1 DEF StayFrom
<1> QED BY <1>2 DEF StayFrom

LEMMA ResizedIsDrawn ==
  ASSUME NEW bar, bar.start \in StayableDays, bar.length \in AllDays, NEW by \in (-Days)..Days
  PROVE  LET days == bar.start..(bar.start + Resized(bar, by) - 1)
         IN days \cap AllDays # {} /\ days \cap AllDays \subseteq StayableDays
<1> DEFINE start == bar.start
           room == LastStay - start + 1
           longer == bar.length + by
<1>1. start \in Nat /\ start >= 1 /\ start <= LastStay /\ LastStay \in Nat /\ Days \in Nat
      /\ LastStay <= Days /\ bar.length \in Nat /\ by \in Int
  BY StayableAre DEF AllDays
<1>2. room \in Nat /\ room >= 1 /\ longer \in Int
  BY <1>1
<1>3. Resized(bar, by) = Min({Max({1, longer}), Max({1, room})})
  <2>1. Max(StayableDays) = LastStay
    BY StayableAre
  <2> QED BY <2>1 DEF Resized
<1> HIDE DEF room, longer
<1>4. Max({1, room}) = room /\ Max({1, longer}) = IF 1 >= longer THEN 1 ELSE longer
  BY <1>2, OfTwo
<1>5. Max({1, longer}) \in Nat /\ Max({1, longer}) >= 1
  BY <1>2, <1>4
<1> DEFINE least == Max({1, longer})
<1>6. least \in Nat /\ least >= 1 /\ Resized(bar, by) = Min({least, room})
  BY <1>3, <1>4, <1>5
<1> HIDE DEF least
<1>7. Min({least, room}) = IF least <= room THEN least ELSE room
  <2>1. least \in Int /\ room \in Int
    BY <1>2, <1>6
  <2> QED BY <2>1, OfTwo
<1>8. Resized(bar, by) \in Nat /\ Resized(bar, by) >= 1 /\ Resized(bar, by) <= room
  BY <1>2, <1>6, <1>7
<1>9. start + Resized(bar, by) - 1 <= LastStay
  BY <1>1, <1>8 DEF room
<1>10. start \in start..(start + Resized(bar, by) - 1) /\ start \in 1..Days
  BY <1>1, <1>8
<1>11. start..(start + Resized(bar, by) - 1) \subseteq 1..LastStay
  BY <1>1, <1>8, <1>9
<1> QED BY <1>10, <1>11, StayableAre DEF AllDays

-----------------------------------------------------------------------------
(* The inductive invariant: what a refetch has read is what is stored unless *)
(* the feed has told since, and a bar whose edge is held starts on a day one *)
(* can stay.                                                                 *)
MoveType == [n : 1..MaxMoves, camper : Campers, to : Place, at : {"sent", "saved", "failed"},
             before : [Campers -> Place]]
BarType == [camper : Campers, lodging : Units, start : AllDays, length : AllDays]
SentFetch == [at : {"sent"}, why : {"told", "focus"}]
ReadFetch == [at : {"read"}, why : {"told", "focus"}, got : [Campers -> Place]]

BoardTypes ==
  /\ server \in [Campers -> Place] /\ listed \in [Campers -> Place]
  /\ fetch = NoFetch \/ fetch \in SentFetch \/ fetch \in ReadFetch
  /\ stale \in BOOLEAN /\ noticed \in BOOLEAN
  /\ moves \subseteq MoveType
  /\ resize = NoBar \/ resize \in BarType
  /\ sent \in 0..MaxMoves /\ elsewhere \in 0..MaxElsewhere

ReadIsTrue == fetch.at = "read" => noticed \/ fetch.got = server

BarIsDrawn == resize # NoBar => resize.start \in StayableDays

BoardInv ==
  /\ BoardTypes /\ ReadIsTrue /\ BarIsDrawn
  /\ QuietIsTrue /\ NoRefetchUnderMove /\ StaysAreDrawn

LEMMA BoardTyped == BoardTypes <=> BoardTypeOK
BY DEF BoardTypes, BoardTypeOK, MoveType, BarType, SentFetch, ReadFetch

LEMMA BoardStarts == BoardInit => BoardInv
<1> SUFFICES ASSUME BoardInit PROVE BoardInv
  OBVIOUS
<1>1. Nowhere \in Place
  BY DEF Nowhere, Place
<1>2. server \in [Campers -> Place] /\ listed \in [Campers -> Place]
  BY <1>1 DEF BoardInit
<1>3. /\ fetch = NoFetch /\ resize = NoBar /\ stale \in BOOLEAN /\ noticed \in BOOLEAN
      /\ moves = {} /\ sent = 0 /\ elsewhere = 0
  BY DEF BoardInit
<1>4. sent \in 0..MaxMoves /\ elsewhere \in 0..MaxElsewhere
  BY <1>3, BoardAssumption
<1>5. BoardTypes
  BY <1>2, <1>3, <1>4 DEF BoardTypes
<1> QED BY <1>5 DEF BoardInit, BoardInv, ReadIsTrue, BarIsDrawn, QuietIsTrue, NoRefetchUnderMove,
                    StaysAreDrawn, NoFetch

(* A refetch, whoever it is for.                                             *)
LEMMA FetchKeeps ==
  ASSUME BoardInv, FetchReads \/ FetchShows \/ Focus \/ FlushNotices
  PROVE  BoardInv'
<1> USE DEF BoardInv, NoFetch
<1>1. UNCHANGED <<server, moves, resize, sent, elsewhere>>
  BY DEF FetchReads, FetchShows, Focus, FlushNotices
<1>2. BarIsDrawn' /\ StaysAreDrawn'
  BY <1>1 DEF BarIsDrawn, StaysAreDrawn
<1>3. CASE FetchReads
  <2>1. fetch \in SentFetch /\ fetch' = [at |-> "read", why |-> fetch.why, got |-> server]
        /\ UNCHANGED <<listed, stale, noticed>>
    BY <1>3 DEF FetchReads, BoardTypes, ReadFetch
  <2>2. fetch' \in ReadFetch /\ fetch'.got = server /\ fetch'.why = fetch.why
    BY <2>1 DEF BoardTypes, SentFetch, ReadFetch
  <2>3. BoardTypes'
    BY <1>1, <2>1, <2>2 DEF BoardTypes
  <2>4. fetch # NoFetch /\ fetch' # NoFetch
    BY <2>1, <2>2 DEF SentFetch, ReadFetch
  <2>5. ReadIsTrue' /\ QuietIsTrue' /\ NoRefetchUnderMove'
    BY <1>1, <2>1, <2>2, <2>4 DEF ReadIsTrue, QuietIsTrue, NoRefetchUnderMove
  <2> QED BY <1>2, <2>3, <2>5
<1>4. CASE FetchShows
  <2>1. fetch \in ReadFetch /\ listed' = fetch.got /\ fetch' = NoFetch /\ stale' = FALSE
        /\ UNCHANGED noticed /\ fetch.at = "read"
    BY <1>4 DEF FetchShows, BoardTypes, SentFetch
  <2>2. BoardTypes'
    BY <1>1, <2>1 DEF BoardTypes, ReadFetch
  <2>3. ReadIsTrue' /\ QuietIsTrue' /\ NoRefetchUnderMove'
    BY <1>1, <2>1 DEF ReadIsTrue, QuietIsTrue, NoRefetchUnderMove
  <2> QED BY <1>2, <2>2, <2>3
<1>5. CASE Focus \/ FlushNotices
  <2>1. /\ fetch' \in SentFetch /\ fetch'.at = "sent" /\ UNCHANGED listed
        /\ stale' \in BOOLEAN /\ noticed' \in BOOLEAN
        /\ fetch'.why = "focus" \/ moves = {}
    <3>1. Asked("focus") \in SentFetch /\ Asked("told") \in SentFetch
      BY DEF Asked, SentFetch
    <3>2. /\ Asked("focus").at = "sent" /\ Asked("told").at = "sent"
          /\ Asked("focus").why = "focus"
      BY DEF Asked
    <3>3. stale \in BOOLEAN /\ noticed \in BOOLEAN
      BY DEF BoardTypes
    <3>4. CASE Focus
      BY <3>1, <3>2, <3>3, <3>4 DEF Focus
    <3>5. CASE FlushNotices
      BY <3>1, <3>2, <3>3, <3>5 DEF FlushNotices, Invalidate
    <3> QED BY <1>5, <3>4, <3>5
  <2>2. BoardTypes'
    BY <1>1, <2>1 DEF BoardTypes
  <2>3. fetch' # NoFetch
    BY <2>1
  <2>4. ReadIsTrue' /\ QuietIsTrue' /\ NoRefetchUnderMove'
    BY <1>1, <2>1, <2>3 DEF ReadIsTrue, QuietIsTrue, NoRefetchUnderMove
  <2> QED BY <1>2, <2>2, <2>4
<1> QED BY <1>3, <1>4, <1>5

(* Others move a camper, and the feed is told.                               *)
LEMMA ElsewhereKeeps ==
  ASSUME BoardInv, NEW c \in Campers, NEW place \in Place, Elsewhere(c, place)
  PROVE  BoardInv'
<1> USE DEF BoardInv
<1>1. /\ UNCHANGED <<listed, fetch, stale, moves, resize, sent>> /\ noticed' = TRUE
      /\ elsewhere' = elsewhere + 1 /\ elsewhere < MaxElsewhere
      /\ server' = [server EXCEPT ![c] = place]
  BY DEF Elsewhere
<1>2. BoardTypes'
  BY <1>1, BoardAssumption DEF BoardTypes
<1> QED BY <1>1, <1>2 DEF ReadIsTrue, BarIsDrawn, QuietIsTrue, NoRefetchUnderMove, StaysAreDrawn

(* This tab moves one: the refetch is cancelled, and nothing is quiet.       *)
LEMMA MoveKeeps ==
  ASSUME BoardInv, NEW c \in Campers, NEW place \in Place, Move(c, place),
         place.lodging # NoOne => place.stay # {} /\ place.stay \subseteq StayableDays,
         resize' = resize \/ resize' = NoBar
  PROVE  BoardInv'
<1> DEFINE m == [n |-> sent + 1, camper |-> c, to |-> place, at |-> "sent", before |-> listed]
<1>1. /\ UNCHANGED <<server, stale, noticed, elsewhere>> /\ fetch' = NoFetch
      /\ listed' = [listed EXCEPT ![c] = place] /\ moves' = moves \cup {m}
      /\ sent' = sent + 1 /\ sent < MaxMoves
  BY DEF Move
<1>2. BoardTypes
  BY DEF BoardInv
<1>3. m \in MoveType /\ m.to = place
  BY <1>1, <1>2, BoardAssumption DEF BoardTypes, MoveType
<1> HIDE DEF m
<1>4. sent' \in 0..MaxMoves /\ listed' \in [Campers -> Place]
  BY <1>1, <1>2, BoardAssumption DEF BoardTypes
<1>5. BoardTypes'
  BY <1>1, <1>2, <1>3, <1>4 DEF BoardTypes
<1>6. StaysAreDrawn' /\ BarIsDrawn'
  BY <1>1, <1>3 DEF BoardInv, StaysAreDrawn, BarIsDrawn
<1> QED BY <1>1, <1>5, <1>6 DEF BoardInv, ReadIsTrue, QuietIsTrue, NoRefetchUnderMove, NoFetch

(* A move is answered.                                                       *)
LEMMA AnswerKeeps ==
  ASSUME BoardInv, NEW m \in moves, MoveSaved(m) \/ MoveRefused(m)
  PROVE  BoardInv'
<1>1. /\ UNCHANGED <<listed, fetch, stale, resize, sent, elsewhere>>
      /\ \/ server' = server /\ noticed' = noticed
         \/ server' = [server EXCEPT ![m.camper] = m.to] /\ noticed' = TRUE
  BY DEF MoveSaved, MoveRefused
<1>2. PICK at \in {"saved", "failed"} : moves' = (moves \ {m}) \cup {[m EXCEPT !.at = at]}
  BY DEF MoveSaved, MoveRefused
<1> DEFINE new == [m EXCEPT !.at = at]
<1>3. BoardTypes /\ m \in MoveType
  BY DEF BoardInv, BoardTypes
<1>4. new \in MoveType /\ new.to = m.to /\ m.camper \in Campers /\ m.to \in Place
  BY <1>3 DEF MoveType
<1>5. moves' = (moves \ {m}) \cup {new}
  BY <1>2
<1> HIDE DEF new
<1>6. server' \in [Campers -> Place] /\ noticed' \in BOOLEAN
  BY <1>1, <1>3, <1>4 DEF BoardTypes
<1>7. BoardTypes'
  BY <1>1, <1>3, <1>4, <1>5, <1>6 DEF BoardTypes
<1>8. StaysAreDrawn' /\ BarIsDrawn'
  BY <1>1, <1>4, <1>5 DEF BoardInv, StaysAreDrawn, BarIsDrawn
<1>9. moves # {} /\ moves' # {}
  BY <1>5
<1> QED BY <1>1, <1>7, <1>8, <1>9 DEF BoardInv, ReadIsTrue, QuietIsTrue, NoRefetchUnderMove

(* The last move to settle has the list refetched.                           *)
LEMMA SettlingKeeps ==
  ASSUME BoardInv, NEW m \in moves, SettleMove(m)
  PROVE  BoardInv'
<1>1. /\ UNCHANGED <<server, noticed, resize, sent, elsewhere>> /\ moves' = moves \ {m}
      /\ listed' = (IF m.at = "failed" THEN m.before ELSE listed)
      /\ IF moves = {m} THEN Invalidate ELSE UNCHANGED <<stale, fetch>>
  BY DEF SettleMove
<1>2. BoardTypes /\ m \in MoveType
  BY DEF BoardInv, BoardTypes
<1>3. listed' \in [Campers -> Place]
  BY <1>1, <1>2 DEF MoveType, BoardTypes
<1>4. StaysAreDrawn' /\ BarIsDrawn'
  BY <1>1 DEF BoardInv, StaysAreDrawn, BarIsDrawn
<1>5. CASE moves = {m}
  <2>1. fetch' \in SentFetch /\ fetch'.at = "sent" /\ stale' = TRUE /\ moves' = {}
    BY <1>1, <1>5 DEF Invalidate, Asked, SentFetch
  <2>2. BoardTypes'
    BY <1>1, <1>2, <1>3, <2>1 DEF BoardTypes
  <2> QED BY <1>4, <2>1, <2>2 DEF BoardInv, ReadIsTrue, QuietIsTrue, NoRefetchUnderMove
<1>6. CASE moves # {m}
  <2>1. UNCHANGED <<stale, fetch>> /\ moves' # {} /\ moves # {}
    BY <1>1, <1>6
  <2>2. BoardTypes'
    BY <1>1, <1>2, <1>3, <2>1 DEF BoardTypes
  <2> QED BY <1>1, <1>4, <2>1, <2>2 DEF BoardInv, ReadIsTrue, QuietIsTrue, NoRefetchUnderMove
<1> QED BY <1>5, <1>6

-----------------------------------------------------------------------------
LEMMA BoardKept == BoardInv /\ [BoardNext]_boardVars => BoardInv'
<1> SUFFICES ASSUME BoardInv, [BoardNext]_boardVars PROVE BoardInv'
  OBVIOUS
<1>0. BoardTypes
  BY DEF BoardInv
<1>1. CASE FetchReads \/ FetchShows \/ Focus \/ FlushNotices
  BY <1>1, FetchKeeps
<1>2. ASSUME NEW c \in Campers, NEW u \in Units, NEW day \in StayableDays, NEW usual \in {0, Days},
             Drop(c, u, day, usual)
      PROVE  BoardInv'
  <2> DEFINE length == IF Unassigned(listed[c]) THEN usual ELSE StayLength(listed[c].stay)
             place == [lodging |-> u, stay |-> StayFrom(StayableDays, day, length)]
  <2>1. length \in Int
    <3>1. usual \in Int
      BY StayableAre
    <3>2. listed[c].stay \in SUBSET AllDays
      BY <1>0 DEF BoardTypes, Place
    <3>3. ~Unassigned(listed[c]) => StayLength(listed[c].stay) \in Int
      BY <3>2, BarIs, StayableAre DEF Unassigned, AllDays
    <3> QED BY <3>1, <3>3
  <2> HIDE DEF length
  <2>2. place.stay # {} /\ place.stay \subseteq StayableDays
    BY <2>1, DroppedIsDrawn
  <2>3. place \in Place
    BY <2>2, StayableAre DEF Place
  <2>4. Move(c, place) /\ resize' = resize
    BY <1>2 DEF Drop, length
  <2> HIDE DEF place
  <2> QED BY <2>2, <2>3, <2>4, MoveKeeps
<1>3. ASSUME NEW c \in Campers, Unassign(c) PROVE BoardInv'
  <2>1. Move(c, Nowhere) /\ resize' = resize
    BY <1>3 DEF Unassign
  <2>2. Nowhere \in Place /\ Nowhere.lodging = NoOne
    BY DEF Nowhere, Place
  <2> QED BY <2>1, <2>2, MoveKeeps
<1>4. ASSUME NEW c \in Campers, HoldEdge(c) PROVE BoardInv'
  <2>1. /\ UNCHANGED <<server, listed, fetch, stale, noticed, moves, sent, elsewhere>>
        /\ resize' = [camper |-> c, lodging |-> listed[c].lodging,
                      start |-> StayStart(listed[c].stay), length |-> StayLength(listed[c].stay)]
        /\ listed[c].lodging # NoOne /\ HasStayDays(listed[c].stay)
    BY <1>4 DEF HoldEdge, Unassigned
  <2>2. listed[c].stay \in SUBSET AllDays /\ listed[c].lodging \in Units
    BY <1>0, <2>1 DEF BoardTypes, Place
  <2>3. /\ StayStart(listed[c].stay) \in StayableDays /\ StayStart(listed[c].stay) \in AllDays
        /\ StayLength(listed[c].stay) \in AllDays
    BY <2>1, <2>2, BarIs
  <2>4. resize' \in BarType /\ resize'.start \in StayableDays
    BY <2>1, <2>2, <2>3 DEF BarType
  <2>5. BoardTypes'
    BY <1>0, <2>1, <2>4 DEF BoardTypes
  <2> QED BY <2>1, <2>4, <2>5 DEF BoardInv, ReadIsTrue, BarIsDrawn, QuietIsTrue, NoRefetchUnderMove,
                                  StaysAreDrawn
<1>5. ASSUME NEW by \in (-Days)..Days, ReleaseEdge(by) PROVE BoardInv'
  <2> DEFINE days == resize.start..(resize.start + Resized(resize, by) - 1)
             place == [lodging |-> resize.lodging, stay |-> days \cap AllDays]
  <2>1. resize # NoBar /\ resize' = NoBar
        /\ \/ UNCHANGED <<server, listed, fetch, stale, noticed, moves, sent, elsewhere>>
           \/ Move(resize.camper, place)
    BY <1>5 DEF ReleaseEdge
  <2>2. resize \in BarType /\ resize.start \in StayableDays
    BY <1>0, <2>1 DEF BoardTypes, BoardInv, BarIsDrawn
  <2>3. resize.camper \in Campers /\ resize.lodging \in Units /\ resize.length \in AllDays
    BY <2>2 DEF BarType
  <2>4. days \cap AllDays # {} /\ days \cap AllDays \subseteq StayableDays
    BY <2>2, <2>3, ResizedIsDrawn
  <2> HIDE DEF days
  <2>5. place \in Place /\ place.stay # {} /\ place.stay \subseteq StayableDays
    BY <2>3, <2>4 DEF Place
  <2> HIDE DEF place
  <2>6. CASE Move(resize.camper, place)
    BY <2>1, <2>3, <2>5, <2>6, MoveKeeps
  <2>7. CASE UNCHANGED <<server, listed, fetch, stale, noticed, moves, sent, elsewhere>>
    <3>1. BoardTypes'
      BY <1>0, <2>1, <2>7 DEF BoardTypes
    <3> QED BY <2>1, <2>7, <3>1 DEF BoardInv, ReadIsTrue, BarIsDrawn, QuietIsTrue,
                                    NoRefetchUnderMove, StaysAreDrawn
  <2> QED BY <2>1, <2>6, <2>7
<1>6. ASSUME NEW c \in Campers, NEW u \in Units, NEW d \in AllDays,
             Elsewhere(c, [lodging |-> u, stay |-> {d}])
      PROVE  BoardInv'
  <2>1. [lodging |-> u, stay |-> {d}] \in Place
    BY DEF Place
  <2> QED BY <1>6, <2>1, ElsewhereKeeps
<1>7. ASSUME NEW c \in Campers, Elsewhere(c, Nowhere) PROVE BoardInv'
  <2>1. Nowhere \in Place
    BY DEF Nowhere, Place
  <2> QED BY <1>7, <2>1, ElsewhereKeeps
<1>8. ASSUME NEW m \in moves, MoveSaved(m) \/ MoveRefused(m) PROVE BoardInv'
  BY <1>8, AnswerKeeps
<1>9. ASSUME NEW m \in moves, SettleMove(m) PROVE BoardInv'
  BY <1>9, SettlingKeeps
<1>10. CASE UNCHANGED boardVars
  BY <1>10 DEF boardVars, BoardInv, BoardTypes, ReadIsTrue, BarIsDrawn, QuietIsTrue,
               NoRefetchUnderMove, StaysAreDrawn
<1> QED BY <1>1, <1>2, <1>3, <1>4, <1>5, <1>6, <1>7, <1>8, <1>9, <1>10 DEF BoardNext

LEMMA BoardAlways == BoardSpec => []BoardInv
<1>1. BoardInit => BoardInv
  BY BoardStarts
<1>2. BoardInv /\ [BoardNext]_boardVars => BoardInv'
  BY BoardKept
<1> QED BY <1>1, <1>2, PTL DEF BoardSpec

\* The list, its refetch, the moves in flight and the bar that is held keep their types.
THEOREM BoardTypeCorrect == BoardSpec => []BoardTypeOK
<1>1. BoardInv => BoardTypeOK
  BY BoardTyped DEF BoardInv
<1> QED BY <1>1, BoardAlways, PTL

\* However moves, refusals, refetches and others' moves cross, once nothing is on its way
\* the timeline shows where everyone is; no refetch of its own lands under a move, and it
\* sends only stays it draws (hooks/useLodgingAssignment.ts).
THEOREM BoardIsAlwaysTrue == BoardSpec => []BoardIsTrue
<1>1. BoardInv => BoardIsTrue
  BY DEF BoardInv, BoardIsTrue
<1> QED BY <1>1, BoardAlways, PTL

-----------------------------------------------------------------------------
(* Importing an event.  The inductive invariant.  Always: what is asked is   *)
(* of the run's stage, and its method is what the record needs; a node asked *)
(* for has the one over it; a sample is registered once in a run.            *)
Stages == Len(RecordKinds)

RunGoes ==
  /\ run.at # "off" => run.n > 0
  /\ run.at \in {"off", "failed", "done"} => asked = {}
  /\ run.at = "going" => run.stage \in 1..(Stages + 5) /\ (~run.listed => asked = {})
  /\ run.at = "done" => run.stage = Stages + 6

AskedNow ==
  \A q \in asked :
    /\ q.what = "record" => run.stage \in 1..Stages /\ q.kind = RecordKinds[run.stage]
    /\ q.what = "clear" => run.stage = Stages + 1
    /\ q.what = "node" => run.stage = Stages + 2
    /\ q.what = "register" => run.stage = Stages + 3
    /\ q.what = "pay" => run.stage = Stages + 4
    /\ q.what = "check" => run.stage = Stages + 5

SavedOnce ==
  /\ \A k \in Kind, x \in Names :
       saved[k][x].copies \in {0, 1} /\ (saved[k][x].right => saved[k][x].copies = 1)
  /\ \A q \in asked : q.what = "record" =>
       (q.method = "POST" <=> saved[q.kind][q.name].copies = 0)

NodesUnder ==
  \A q \in asked : q.what = "node" =>
    q.node.by = run.n /\ (q.node.key = Root \/ [q.node EXCEPT !.key = Under[@]] \in lodging)

SampledOnce == \A r, s \in sampled : r.by = s.by /\ r.sample = s.sample => r = s

(* While it goes on: each thing of the stages before is as declared, and of  *)
(* the stage it is in, is so or is asked for.                                *)
Right(k, x) == saved[k][x].right
ToSave(x) == \E q \in asked : q.what = "record" /\ q.name = x /\ q.method # "PATCH"

RecordsAhead ==
  /\ \A i \in 1..Stages : i < run.stage => \A x \in Names : Right(RecordKinds[i], x)
  /\ run.stage \in 1..Stages /\ run.listed =>
       \A x \in Names : Right(RecordKinds[run.stage], x) \/ ToSave(x)

ToClear(l) == \E q \in asked : q.what = "clear" /\ q.node = l
There(k) == [by |-> run.n, key |-> k] \in lodging
ToMake(k) == NewNode(k) \in asked

LodgingAhead ==
  /\ run.stage = Stages + 1 /\ run.listed => \A l \in lodging : ToClear(l)
  /\ run.stage = Stages + 2 /\ ~run.listed => lodging = {}
  /\ run.stage > Stages + 1 => \A l \in lodging : l.by = run.n
  /\ run.stage = Stages + 2 /\ run.listed =>
       /\ There(Root) \/ ToMake(Root)
       /\ \A k \in NodeKeys \ {Root} : There(Under[k]) => There(k) \/ ToMake(k)
  /\ run.stage > Stages + 2 => \A k \in NodeKeys : There(k)

Paid(x) == [by |-> run.n, sample |-> x, paid |-> TRUE] \in sampled
ToPay(x) == \E q \in asked : q.what = "pay" /\ q.sample = x

SamplesAhead ==
  /\ run.stage = Stages + 4 /\ run.listed => \A x \in Samples : Paid(x) \/ ToPay(x)
  /\ run.stage > Stages + 4 => \A x \in Samples : Paid(x)

ImportKept == ImportTypeOK /\ AskedNow /\ SavedOnce /\ NodesUnder /\ NoOrphans /\ SampledOnce
Ahead == RecordsAhead /\ LodgingAhead /\ SamplesAhead

ImportInv == ImportKept /\ RunGoes /\ (run.at \in {"going", "done"} => Ahead)

-----------------------------------------------------------------------------
(* What is under a node of the tree.  Below is recursive: that there is such *)
(* a function is shown with the keys every set closed under Under has, and   *)
(* that it is closed itself from the lowest key at which it would not be.    *)
Children(key) == {j \in NodeKeys \ {Root} : Under[j] = key}

Closed(S) == \A j \in NodeKeys \ {Root} : Under[j] \in S => j \in S

Descends(g) == g = [key \in NodeKeys |-> {key} \cup UNION {g[k] : k \in Children(key)}]

LEMMA SomeDescend ==
  ASSUME IsTree
  PROVE  \E g : Descends(g)
<1> DEFINE Desc(key) == {j \in NodeKeys : \A S \in SUBSET NodeKeys : key \in S /\ Closed(S) => j \in S}
           g == [key \in NodeKeys |-> Desc(key)]
           Next(key) == {key} \cup UNION {Desc(k) : k \in Children(key)}
<1>1. \A key \in NodeKeys : Children(key) \subseteq NodeKeys \ {Root} /\ key \in Desc(key) /\ Desc(key) \subseteq NodeKeys
  BY DEF Children
<1>2. ASSUME NEW key \in NodeKeys PROVE Next(key) \subseteq Desc(key)
  <2>1. ASSUME NEW k \in Children(key), NEW j \in Desc(k) PROVE j \in Desc(key)
    <3>1. \A S \in SUBSET NodeKeys : key \in S /\ Closed(S) => k \in S
      BY DEF Children, Closed
    <3>2. j \in NodeKeys /\ \A S \in SUBSET NodeKeys : k \in S /\ Closed(S) => j \in S
      BY <2>1
    <3> QED BY <3>1, <3>2
  <2> HIDE DEF Desc
  <2> QED BY <1>1, <2>1
<1>3. ASSUME NEW key \in NodeKeys PROVE Desc(key) \subseteq Next(key)
  <2>1. Next(key) \in SUBSET NodeKeys /\ key \in Next(key)
    BY <1>1
  <2>2. ASSUME NEW j \in NodeKeys \ {Root}, Under[j] \in Next(key) PROVE j \in Next(key)
    <3>1. CASE Under[j] = key
      <4>1. j \in Children(key)
        BY <3>1 DEF Children
      <4> QED BY <4>1, <1>1
    <3>2. CASE \E k \in Children(key) : Under[j] \in Desc(k)
      <4>1. PICK k \in Children(key) : Under[j] \in Desc(k)
        BY <3>2
      <4>2. j \in Desc(k)
        BY <4>1, <2>2 DEF Closed
      <4> QED BY <4>1, <4>2
    <3> QED BY <2>2, <3>1, <3>2
  <2>3. Closed(Next(key))
    BY <2>2 DEF Closed
  <2> QED BY <2>1, <2>3
<1>4. \A key \in NodeKeys : Desc(key) = Next(key)
  BY <1>2, <1>3
<1>5. \A key \in NodeKeys : {g[k] : k \in Children(key)} = {Desc(k) : k \in Children(key)}
  <2> HIDE DEF Desc
  <2> QED BY <1>1
<1>6. Descends(g)
  <2> HIDE DEF Desc
  <2> QED BY <1>4, <1>5 DEF Descends
<1> QED BY <1>6

LEMMA BelowIs ==
  ASSUME IsTree
  PROVE  \A key \in NodeKeys : Below[key] = {key} \cup UNION {Below[k] : k \in Children(key)}
<1>1. \E g : Descends(g)
  BY SomeDescend
<1>2. Below = CHOOSE g : Descends(g)
  BY DEF Below, Descends, Children
<1>3. Descends(Below)
  BY <1>1, <1>2
<1>4. Below = [key \in NodeKeys |-> {key} \cup UNION {Below[k] : k \in Children(key)}]
  BY <1>3 DEF Descends
<1> QED BY <1>4

(* What is under a node has what is under each of its nodes.                 *)
LEMMA BelowClosed ==
  ASSUME IsTree, NEW key \in NodeKeys
  PROVE  key \in Below[key] /\ Closed(Below[key])
<1> DEFINE Bad == {k \in NodeKeys : ~Closed(Below[k])}
<1>1. key \in Below[key]
  BY BelowIs
<1>2. ASSUME Bad # {} PROVE FALSE
  <2>1. PICK k \in Bad : \A j \in Bad \ {Root} : Under[j] # k
    BY <1>2 DEF IsTree
  <2>2. \A c \in Children(k) : Closed(Below[c]) /\ c \in NodeKeys
    BY <2>1 DEF Children
  <2>3. ASSUME NEW j \in NodeKeys \ {Root}, Under[j] \in Below[k] PROVE j \in Below[k]
    <3>1. CASE Under[j] = k
      <4>1. j \in Children(k) /\ j \in Below[j]
        BY <3>1, BelowIs DEF Children
      <4> QED BY <4>1, BelowIs
    <3>2. CASE \E c \in Children(k) : Under[j] \in Below[c]
      <4>1. PICK c \in Children(k) : Under[j] \in Below[c]
        BY <3>2
      <4>2. j \in Below[c]
        BY <4>1, <2>2, <2>3 DEF Closed
      <4> QED BY <4>1, <4>2, BelowIs
    <3> QED BY <2>3, <3>1, <3>2, BelowIs
  <2> QED BY <2>1, <2>3 DEF Closed
<1> QED BY <1>1, <1>2

(* The root, and with each key those right under it: all the keys.           *)
LEMMA WholeTree ==
  ASSUME IsTree, NEW S, Root \in S, Closed(S)
  PROVE  NodeKeys \subseteq S
<1> SUFFICES ASSUME NodeKeys \ S # {} PROVE FALSE
  OBVIOUS
<1>1. PICK k \in NodeKeys \ S : k = Root \/ Under[k] \notin NodeKeys \ S
  BY DEF IsTree
<1>2. k # Root /\ Under[k] \in NodeKeys
  BY <1>1 DEF IsTree
<1> QED BY <1>1, <1>2 DEF Closed

-----------------------------------------------------------------------------
(* Requests.                                                                 *)
RunType ==
  [n : 0..MaxRuns, stage : 0..(Len(RecordKinds) + 6), listed : BOOLEAN,
   at : {"off", "going", "failing", "failed", "done"}, why : {"none", "lost", "refused", "gone"}]
SavedType == [Kind -> [Names -> [copies : 0..MaxRuns, right : BOOLEAN]]]
SampledType == [by : 1..MaxRuns, sample : Samples, paid : BOOLEAN]

LEMMA ImportTyped ==
  ImportTypeOK <=> /\ run \in RunType /\ asked \subseteq Request /\ saved \in SavedType
                   /\ lodging \subseteq Node /\ sampled \subseteq SampledType
BY DEF ImportTypeOK, RunType, SavedType, SampledType

LEMMA ImportTypedNext ==
  ASSUME run' \in RunType, asked' \subseteq Request, saved' \in SavedType,
         lodging' \subseteq Node, sampled' \subseteq SampledType
  PROVE  ImportTypeOK'
BY DEF ImportTypeOK, RunType, SavedType, SampledType

LEMMA RequestIs ==
  ASSUME NEW q \in Request
  PROVE  /\ q.what \in {"record", "clear", "node", "register", "pay", "check"}
         /\ q.what = "record" => /\ q.kind \in Kind /\ q.name \in Names
                                 /\ q.method \in {"POST", "PUT", "PATCH"}
                                 /\ q = [what |-> "record", kind |-> q.kind, name |-> q.name,
                                         method |-> q.method]
         /\ q.what \in {"clear", "node"} => q.node \in Node
         /\ q.what = "node" => q.method = "POST"
         /\ q.what \in {"register", "pay"} => q.sample \in Samples
BY DEF Request

LEMMA KindsAre ==
  ASSUME ImportAssumption
  PROVE  /\ Stages \in Nat
         /\ \A i \in 1..Stages : RecordKinds[i] \in Kind
         /\ \A k \in Kind : \E i \in 1..Stages : RecordKinds[i] = k
<1>1. RecordKinds \in Seq(Kind)
  BY DEF ImportAssumption
<1>2. Stages \in Nat /\ DOMAIN RecordKinds = 1..Stages
  BY <1>1 DEF Stages
<1> QED BY <1>2 DEF Kind

LEMMA RunIs ==
  ASSUME ImportAssumption, ImportTypeOK
  PROVE  run.n \in 0..MaxRuns /\ run.stage \in 0..(Stages + 6) /\ run.stage \in Int
BY KindsAre, ImportTyped DEF RunType, Stages

(* What each kind of request has the run ask next.                           *)
LEMMA FollowsAre ==
  ASSUME ImportAssumption, ImportTypeOK, RunGoes, NEW q \in asked
  PROVE  /\ q.what = "record" => Follows(q) \subseteq {[q EXCEPT !.method = "PATCH"]}
         /\ q.what = "record" /\ q.method = "PATCH" => Follows(q) = {}
         /\ q.what = "node" => Follows(q) = {NewNode(k) : k \in Children(q.node.key)}
         /\ q.what \notin {"record", "node"} => Follows(q) = {}
         /\ Follows(q) \subseteq Request
<1>0. q \in Request /\ run.n \in 1..MaxRuns
  BY ImportTyped, RunIs DEF RunGoes, ImportAssumption
<1>1. CASE q.what = "record"
  <2>1. [q EXCEPT !.method = "PATCH"] = [what |-> "record", kind |-> q.kind, name |-> q.name,
                                         method |-> "PATCH"]
    BY <1>0, <1>1, RequestIs
  <2>2. [q EXCEPT !.method = "PATCH"] \in Request
    BY <1>0, <1>1, <2>1, RequestIs DEF Request
  <2>3. /\ Follows(q) \subseteq {[q EXCEPT !.method = "PATCH"]}
        /\ q.method = "PATCH" => Follows(q) = {}
    BY <1>1 DEF Follows
  <2> QED BY <1>1, <2>2, <2>3
<1>2. CASE q.what = "node"
  <2>1. Follows(q) = {NewNode(k) : k \in Children(q.node.key)}
    BY <1>2 DEF Follows, Children
  <2>2. \A k \in NodeKeys : NewNode(k) \in Request
    BY <1>0 DEF NewNode, Request, Node
  <2> QED BY <1>2, <2>1, <2>2 DEF Children
<1>3. CASE q.what \notin {"record", "node"}
  <2>1. Follows(q) = {}
    BY <1>3 DEF Follows
  <2> QED BY <1>3, <2>1
<1> QED BY <1>1, <1>2, <1>3

(* What the server does with a record: it is there once, and as declared.    *)
LEMMA RecordActs ==
  ASSUME ImportAssumption, ImportTypeOK, RunGoes, SavedOnce,
         NEW q \in asked, q.what = "record", Acts(q)
  PROVE  /\ UNCHANGED <<lodging, sampled>>
         /\ q.method = "PATCH" => saved' = saved
         /\ q.method # "PATCH" =>
              /\ saved' \in SavedType
              /\ \A k \in Kind, x \in Names :
                   saved'[k][x] = IF k = q.kind /\ x = q.name THEN [copies |-> 1, right |-> TRUE]
                                  ELSE saved[k][x]
<1> DEFINE was == saved[q.kind][q.name]
           copies == IF q.method = "POST" THEN was.copies + 1 ELSE was.copies
           now == [copies |-> copies, right |-> TRUE]
<1>0. /\ q \in Request /\ q.kind \in Kind /\ q.name \in Names /\ q.method \in {"POST", "PUT", "PATCH"}
      /\ saved \in SavedType /\ run.n \in 1..MaxRuns /\ MaxRuns \in Nat
  BY ImportTyped, RequestIs, RunIs DEF RunGoes, ImportAssumption
<1>1. UNCHANGED <<lodging, sampled>> /\ (q.method = "PATCH" => saved' = saved)
  BY DEF Acts
<1>2. q.method # "PATCH" => saved' = [saved EXCEPT ![q.kind][q.name] = now]
  BY DEF Acts
<1>3. q.method # "PATCH" => copies = 1
  <2>1. was.copies \in {0, 1} /\ (q.method = "POST" <=> was.copies = 0)
    BY <1>0 DEF SavedOnce
  <2> HIDE DEF was
  <2> QED BY <1>0, <2>1
<1> HIDE DEF copies
<1>4. ASSUME q.method # "PATCH"
      PROVE  /\ saved' \in SavedType
             /\ \A k \in Kind, x \in Names :
                   saved'[k][x] = IF k = q.kind /\ x = q.name THEN now ELSE saved[k][x]
  <2>1. copies \in 0..MaxRuns
    BY <1>0, <1>3, <1>4
  <2>2. now \in [copies : 0..MaxRuns, right : BOOLEAN]
    BY <2>1
  <2> HIDE DEF now
  <2> DEFINE Counts == [copies : 0..MaxRuns, right : BOOLEAN]
  <2> HIDE DEF Counts
  <2>3. saved \in [Kind -> [Names -> Counts]] /\ now \in Counts
    BY <1>0, <2>2 DEF SavedType, Counts
  <2>4. saved' \in [Kind -> [Names -> Counts]]
    BY <1>0, <1>2, <1>4, <2>3
  <2>5. \A k \in Kind, x \in Names :
          saved'[k][x] = IF k = q.kind /\ x = q.name THEN now ELSE saved[k][x]
    BY <1>0, <1>2, <1>4, <2>3
  <2> QED BY <2>4, <2>5 DEF SavedType, Counts
<1> QED BY <1>1, <1>3, <1>4

LEMMA ClearActs ==
  ASSUME IsTree, ImportTypeOK, NEW q \in asked, q.what = "clear", ~Gone(q), Acts(q)
  PROVE  /\ UNCHANGED <<saved, sampled>>
         /\ lodging' \subseteq lodging \ {q.node}
         /\ NoOrphans => NoOrphans'
<1>1. UNCHANGED <<saved, sampled>> /\ lodging' = lodging \ Cascade(q.node)
  BY DEF Acts
<1>2. q \in Request /\ q.node \in lodging /\ q.node \in Node /\ lodging \subseteq Node
  BY ImportTyped, RequestIs DEF Gone
<1>3. q.node.key \in Below[q.node.key] /\ Closed(Below[q.node.key])
  BY <1>2, BelowClosed DEF Node
<1>4. q.node \in Cascade(q.node)
  BY <1>2, <1>3 DEF Cascade
<1>5. ASSUME NoOrphans PROVE NoOrphans'
  <2> SUFFICES ASSUME NEW l \in lodging', l.key # Root
               PROVE  \E m \in lodging' : m.by = l.by /\ m.key = Under[l.key]
    BY DEF NoOrphans
  <2>1. l \in lodging /\ l \notin Cascade(q.node) /\ l.key \in NodeKeys \ {Root}
    BY <1>1, <1>2 DEF Node
  <2>2. PICK m \in lodging : m.by = l.by /\ m.key = Under[l.key]
    BY <1>5, <2>1 DEF NoOrphans
  <2>3. m \notin Cascade(q.node)
    BY <1>3, <2>1, <2>2 DEF Cascade, Closed
  <2> QED BY <1>1, <2>2, <2>3
<1> QED BY <1>1, <1>4, <1>5

LEMMA AskedKept ==
  ASSUME ImportAssumption, ImportTypeOK, RunGoes, AskedNow, NEW q \in asked,
         asked' \subseteq asked \cup Follows(q), run'.stage = run.stage
  PROVE  AskedNow' /\ asked' \subseteq Request
<1> SUFFICES ASSUME NEW r \in asked' PROVE r \in Request /\ AskedNow!(r)'
  BY DEF AskedNow
<1>0. q \in Request /\ asked \subseteq Request
  BY ImportTyped
<1>1. CASE r \in asked
  BY <1>0, <1>1 DEF AskedNow
<1>2. CASE r \in Follows(q) /\ q.what = "record"
  <2>1. r = [q EXCEPT !.method = "PATCH"] /\ r \in Request
    BY <1>2, FollowsAre
  <2>2. r.what = "record" /\ r.kind = q.kind
    BY <1>0, <1>2, <2>1, RequestIs
  <2> QED BY <1>2, <2>1, <2>2 DEF AskedNow
<1>3. CASE r \in Follows(q) /\ q.what = "node"
  <2>1. r.what = "node" /\ r \in Request
    BY <1>3, FollowsAre DEF NewNode
  <2> QED BY <1>3, <2>1 DEF AskedNow
<1> QED BY <1>1, <1>2, <1>3, FollowsAre

(* Whatever the server does with a request of a run, and whatever of it is   *)
(* asked on, keeps what always holds, unless a record is created twice.      *)
LEMMA KeptByActs ==
  ASSUME ImportAssumption, ImportKept, RunGoes, NEW q \in asked, ~Gone(q), Acts(q),
         asked' \subseteq asked \cup Follows(q),
         q.what = "record" /\ q.method = "POST" => q \notin asked',
         run' \in RunType, run'.n = run.n, run'.stage = run.stage
  PROVE  ImportKept'
<1>0. /\ ImportTypeOK /\ AskedNow /\ SavedOnce /\ NodesUnder /\ NoOrphans /\ SampledOnce
      /\ q \in Request /\ asked \subseteq Request /\ saved \in SavedType
      /\ lodging \subseteq Node /\ sampled \subseteq SampledType /\ run.n \in 1..MaxRuns
  BY ImportTyped, RunIs DEF ImportKept, RunGoes, ImportAssumption
<1>1. AskedNow' /\ asked' \subseteq Request
  BY <1>0, AskedKept
<1>2. CASE q.what = "record"
  <2>1. /\ UNCHANGED <<lodging, sampled>>
        /\ q.method = "PATCH" => saved' = saved
        /\ q.method # "PATCH" =>
             /\ saved' \in SavedType
             /\ \A k \in Kind, x \in Names :
                  saved'[k][x] = IF k = q.kind /\ x = q.name THEN [copies |-> 1, right |-> TRUE]
                                 ELSE saved[k][x]
    BY <1>0, <1>2, RecordActs
  <2>2. ImportTypeOK'
    <3>1. saved' \in SavedType
      BY <1>0, <2>1
    <3> QED BY <1>0, <1>1, <2>1, <3>1, ImportTypedNext
  <2>3. SavedOnce'
    <3>1. ASSUME NEW k \in Kind, NEW x \in Names
          PROVE  saved'[k][x].copies \in {0, 1} /\ (saved'[k][x].right => saved'[k][x].copies = 1)
      BY <1>0, <2>1 DEF SavedOnce
    <3>2. ASSUME NEW r \in asked', r.what = "record"
          PROVE  r.method = "POST" <=> saved'[r.kind][r.name].copies = 0
      <4>0. r.kind \in Kind /\ r.name \in Names /\ q.kind \in Kind /\ q.name \in Names
        BY <1>0, <1>1, <1>2, <3>2, RequestIs
      <4>1. CASE r \in asked
        <5>1. r.method = "POST" <=> saved[r.kind][r.name].copies = 0
          BY <1>0, <3>2, <4>1 DEF SavedOnce
        <5>2. q.method = "POST" <=> saved[q.kind][q.name].copies = 0
          BY <1>0, <1>2 DEF SavedOnce
        <5>3. CASE q.method = "PATCH" \/ ~(r.kind = q.kind /\ r.name = q.name)
          BY <2>1, <4>0, <5>1, <5>3
        <5>4. CASE q.method # "PATCH" /\ r.kind = q.kind /\ r.name = q.name
          <6>1. saved'[r.kind][r.name].copies = 1
            BY <2>1, <4>0, <5>4
          <6>2. ASSUME r.method = "POST" PROVE FALSE
            <7>1. q.method = "POST"
              BY <5>1, <5>2, <5>4, <6>2
            <7>2. r = q
              BY <1>0, <1>2, <3>2, <4>1, <5>4, <6>2, <7>1, RequestIs
            <7> QED BY <1>2, <7>1, <7>2
          <6> QED BY <6>1, <6>2
        <5> QED BY <5>3, <5>4
      <4>2. CASE r \in Follows(q)
        <5>1. r = [q EXCEPT !.method = "PATCH"] /\ q.method # "PATCH"
          BY <1>0, <1>2, <4>2, FollowsAre
        <5>2. r.kind = q.kind /\ r.name = q.name /\ r.method = "PATCH"
          BY <1>0, <1>2, <5>1, RequestIs
        <5> QED BY <2>1, <4>0, <5>1, <5>2
      <4> QED BY <4>1, <4>2
    <3> QED BY <3>1, <3>2 DEF SavedOnce
  <2>4. NodesUnder'
    <3> SUFFICES ASSUME NEW r \in asked', r.what = "node" PROVE NodesUnder!(r)!2'
      BY DEF NodesUnder
    <3>1. r \in asked
      <4>1. ASSUME r \in Follows(q) PROVE FALSE
        <5>1. r = [q EXCEPT !.method = "PATCH"]
          BY <1>0, <1>2, <4>1, FollowsAre
        <5>2. r.what = "record"
          BY <1>0, <1>2, <5>1, RequestIs
        <5> QED BY <5>2
      <4> QED BY <4>1
    <3> QED BY <1>0, <2>1, <3>1 DEF NodesUnder
  <2> QED BY <1>0, <1>1, <2>1, <2>2, <2>3, <2>4 DEF ImportKept, NoOrphans, SampledOnce
<1>3. CASE q.what = "clear"
  <2>1. UNCHANGED <<saved, sampled>> /\ lodging' \subseteq lodging /\ NoOrphans'
    BY <1>0, <1>3, ClearActs DEF ImportAssumption
  <2>2. asked' \subseteq asked
    BY <1>0, <1>3, FollowsAre
  <2>3. ImportTypeOK'
    BY <1>0, <1>1, <2>1, ImportTypedNext
  <2>4. SavedOnce' /\ SampledOnce'
    BY <1>0, <2>1, <2>2 DEF SavedOnce, SampledOnce
  <2>5. NodesUnder'
    <3>1. \A r \in asked : r.what # "node"
      <4>1. run.stage = Stages + 1 /\ Stages \in Nat
        BY <1>0, <1>3, KindsAre DEF AskedNow
      <4> QED BY <1>0, <4>1 DEF AskedNow
    <3> QED BY <2>2, <3>1 DEF NodesUnder
  <2> QED BY <1>1, <2>1, <2>3, <2>4, <2>5 DEF ImportKept
<1>4. CASE q.what = "node"
  <2>1. UNCHANGED <<saved, sampled>> /\ lodging' = lodging \cup {q.node}
    BY <1>4 DEF Acts
  <2>2. q.node \in Node /\ q.node.by = run.n /\ q.node.key \in NodeKeys
    BY <1>0, <1>4, RequestIs DEF NodesUnder, Node
  <2>3. q.node.key = Root \/ [by |-> run.n, key |-> Under[q.node.key]] \in lodging
    <3>1. q.node = [by |-> run.n, key |-> q.node.key]
      BY <2>2 DEF Node
    <3>2. [q.node EXCEPT !.key = Under[@]] = [by |-> run.n, key |-> Under[q.node.key]]
      BY <3>1
    <3> QED BY <1>0, <1>4, <3>2 DEF NodesUnder
  <2>4. ImportTypeOK'
    BY <1>0, <1>1, <2>1, <2>2, ImportTypedNext
  <2>5. NoOrphans'
    <3> SUFFICES ASSUME NEW l \in lodging', l.key # Root
                 PROVE  \E m \in lodging' : m.by = l.by /\ m.key = Under[l.key]
      BY DEF NoOrphans
    <3>1. CASE l \in lodging
      BY <1>0, <2>1, <3>1 DEF NoOrphans
    <3>2. CASE l = q.node
      BY <2>1, <2>2, <2>3, <3>2
    <3> QED BY <2>1, <3>1, <3>2
  <2>6. NodesUnder'
    <3> SUFFICES ASSUME NEW r \in asked', r.what = "node" PROVE NodesUnder!(r)!2'
      BY DEF NodesUnder
    <3>1. CASE r \in asked
      BY <1>0, <2>1, <3>1 DEF NodesUnder
    <3>2. CASE r \in Follows(q)
      <4>1. PICK k \in Children(q.node.key) : r = NewNode(k)
        BY <1>0, <1>4, <3>2, FollowsAre
      <4>2. r.node = [by |-> run.n, key |-> k] /\ Under[k] = q.node.key
        BY <4>1 DEF NewNode, Children
      <4>3. [r.node EXCEPT !.key = Under[@]] = [by |-> run.n, key |-> q.node.key]
        BY <4>2
      <4>4. q.node = [by |-> run.n, key |-> q.node.key]
        BY <2>2 DEF Node
      <4> QED BY <2>1, <4>2, <4>3, <4>4
    <3> QED BY <3>1, <3>2
  <2>7. SavedOnce' /\ SampledOnce'
    <3>1. \A r \in Follows(q) : r.what = "node"
      BY <1>0, <1>4, FollowsAre DEF NewNode
    <3> QED BY <1>0, <2>1, <3>1 DEF SavedOnce, SampledOnce
  <2> QED BY <1>1, <2>4, <2>5, <2>6, <2>7 DEF ImportKept
<1>5. CASE q.what \in {"register", "pay"}
  <2> DEFINE new == [by |-> run.n, sample |-> q.sample, paid |-> q.what = "pay"]
  <2>1. /\ UNCHANGED <<saved, lodging>>
        /\ sampled' = {r \in sampled : ~(r.by = run.n /\ r.sample = q.sample)} \cup {new}
    BY <1>5 DEF Acts
  <2>2. asked' \subseteq asked
    BY <1>0, <1>5, FollowsAre
  <2>3. new \in SampledType /\ new.by = run.n /\ new.sample = q.sample
    BY <1>0, <1>5, RequestIs DEF SampledType
  <2> HIDE DEF new
  <2>4. ImportTypeOK'
    BY <1>0, <1>1, <2>1, <2>3, ImportTypedNext
  <2>5. SampledOnce'
    BY <1>0, <2>1, <2>3 DEF SampledOnce
  <2>6. SavedOnce' /\ NodesUnder' /\ NoOrphans'
    BY <1>0, <2>1, <2>2 DEF SavedOnce, NodesUnder, NoOrphans
  <2> QED BY <1>1, <2>4, <2>5, <2>6 DEF ImportKept
<1>6. CASE q.what = "check"
  <2>1. UNCHANGED <<saved, lodging, sampled>>
    BY <1>6 DEF Acts
  <2>2. asked' \subseteq asked
    BY <1>0, <1>6, FollowsAre
  <2>3. ImportTypeOK'
    BY <1>0, <1>1, <2>1, ImportTypedNext
  <2>4. SavedOnce' /\ NodesUnder' /\ NoOrphans' /\ SampledOnce'
    BY <1>0, <2>1, <2>2 DEF SavedOnce, NodesUnder, NoOrphans, SampledOnce
  <2> QED BY <1>1, <2>3, <2>4 DEF ImportKept
<1> QED BY <1>0, <1>2, <1>3, <1>4, <1>5, <1>6, RequestIs

(* Nothing happens at the server, and nothing more is asked.                 *)
LEMMA KeptByQuiet ==
  ASSUME ImportKept, UNCHANGED <<saved, lodging, sampled>>, asked' \subseteq asked,
         run' \in RunType, run'.n = run.n, run'.stage = run.stage
  PROVE  ImportKept'
<1>1. ImportTypeOK'
  BY ImportTyped, ImportTypedNext DEF ImportKept
<1>2. AskedNow' /\ SavedOnce' /\ NodesUnder' /\ NoOrphans' /\ SampledOnce'
  BY DEF ImportKept, AskedNow, SavedOnce, NodesUnder, NoOrphans, SampledOnce
<1> QED BY <1>1, <1>2 DEF ImportKept

(* A request done, and what it has asked next, leaves nothing undone that is *)
(* not asked for.                                                            *)
LEMMA AheadByActs ==
  ASSUME ImportAssumption, ImportKept, RunGoes, Ahead, run.at = "going",
         NEW q \in asked, ~Gone(q), Acts(q),
         asked \ {q} \subseteq asked', q.what = "node" => Follows(q) \subseteq asked', run' = run
  PROVE  Ahead'
<1>0. /\ ImportTypeOK /\ AskedNow /\ SavedOnce /\ NodesUnder
      /\ q \in Request /\ asked \subseteq Request /\ lodging \subseteq Node
      /\ run.stage \in Int /\ Stages \in Nat /\ run.listed
      /\ \A i \in 1..Stages : RecordKinds[i] \in Kind
      /\ RecordsAhead /\ LodgingAhead /\ SamplesAhead
  BY ImportTyped, RunIs, KindsAre DEF ImportKept, RunGoes, Ahead
<1>1. \A r \in asked : r # q => r \in asked'
  OBVIOUS
<1>2. saved' = saved /\ run.stage > Stages => RecordsAhead'
  BY <1>0 DEF RecordsAhead, Right
<1>3. lodging' = lodging /\ run.stage > Stages + 2 => LodgingAhead'
  BY <1>0 DEF LodgingAhead, There
<1>4. CASE q.what = "record"
  <2>1. run.stage \in 1..Stages /\ q.kind = RecordKinds[run.stage] /\ q.name \in Names
    BY <1>0, <1>4, RequestIs DEF AskedNow
  <2>2. \A k \in Kind, x \in Names :
          /\ Right(k, x) => Right(k, x)'
          /\ k = q.kind /\ x = q.name /\ q.method # "PATCH" => Right(k, x)'
    BY <1>0, <1>4, RecordActs DEF Right
  <2>3. ASSUME NEW x \in Names
        PROVE  Right(RecordKinds[run.stage], x)' \/ ToSave(x)'
    <3>1. CASE Right(RecordKinds[run.stage], x)
      BY <1>0, <2>1, <2>2, <3>1
    <3>2. CASE ToSave(x)
      <4>1. PICK r \in asked : r.what = "record" /\ r.name = x /\ r.method # "PATCH"
        BY <3>2 DEF ToSave
      <4>2. CASE r = q
        BY <1>0, <2>1, <2>2, <4>1, <4>2
      <4>3. CASE r # q
        BY <1>1, <4>1, <4>3 DEF ToSave
      <4> QED BY <4>2, <4>3
    <3> QED BY <1>0, <2>1, <3>1, <3>2 DEF RecordsAhead
  <2>4. RecordsAhead'
    <3>1. \A i \in 1..Stages : i < run.stage => \A x \in Names : Right(RecordKinds[i], x)'
      BY <1>0, <2>2 DEF RecordsAhead
    <3> QED BY <2>3, <3>1 DEF RecordsAhead, Right
  <2> QED BY <1>0, <2>1, <2>4 DEF Ahead, LodgingAhead, SamplesAhead
<1>5. CASE q.what = "clear"
  <2>1. run.stage = Stages + 1
    BY <1>0, <1>5 DEF AskedNow
  <2>2. saved' = saved /\ lodging' \subseteq lodging \ {q.node}
    BY <1>0, <1>5, ClearActs DEF ImportAssumption
  <2>3. ASSUME NEW l \in lodging' PROVE ToClear(l)'
    <3>1. PICK r \in asked : r.what = "clear" /\ r.node = l
      BY <1>0, <2>1, <2>2 DEF LodgingAhead, ToClear
    <3>2. r # q
      BY <2>2, <3>1
    <3> QED BY <1>1, <3>1, <3>2 DEF ToClear
  <2> QED BY <1>0, <1>2, <2>1, <2>2, <2>3 DEF Ahead, LodgingAhead, SamplesAhead
<1>6. CASE q.what = "node"
  <2>1. run.stage = Stages + 2
    BY <1>0, <1>6 DEF AskedNow
  <2>2. saved' = saved /\ lodging' = lodging \cup {q.node}
    BY <1>6 DEF Acts
  <2>3. q.node.by = run.n /\ q.node.key \in NodeKeys /\ q.node = [by |-> run.n, key |-> q.node.key]
    BY <1>0, <1>6, RequestIs DEF NodesUnder, Node
  <2>4. \A k \in NodeKeys : There(k) => There(k)'
    BY <2>2 DEF There
  <2>5. ASSUME NEW k \in NodeKeys, ToMake(k) PROVE There(k)' \/ ToMake(k)'
    <3>1. CASE NewNode(k) = q
      <4>1. q.node = [by |-> run.n, key |-> k]
        BY <3>1 DEF NewNode
      <4> QED BY <2>2, <4>1 DEF There
    <3>2. CASE NewNode(k) # q
      BY <1>1, <2>5, <3>2 DEF ToMake, NewNode
    <3> QED BY <3>1, <3>2
  <2>6. ASSUME NEW k \in NodeKeys \ {Root}, There(Under[k])' PROVE There(k)' \/ ToMake(k)'
    <3>1. CASE There(Under[k])
      BY <1>0, <2>1, <2>4, <2>5, <3>1 DEF LodgingAhead
    <3>2. CASE [by |-> run.n, key |-> Under[k]] = q.node
      <4>1. k \in Children(q.node.key)
        BY <2>3, <3>2 DEF Children
      <4>2. NewNode(k) \in Follows(q)
        BY <1>0, <1>6, <4>1, FollowsAre
      <4> QED BY <1>6, <4>2 DEF ToMake, NewNode
    <3> QED BY <2>2, <2>6, <3>1, <3>2 DEF There
  <2>7. There(Root)' \/ ToMake(Root)'
    BY <1>0, <2>1, <2>4, <2>5 DEF LodgingAhead, ImportAssumption, IsTree
  <2>8. LodgingAhead'
    <3>1. \A l \in lodging' : l.by = run.n
      BY <1>0, <2>1, <2>2, <2>3 DEF LodgingAhead
    <3> QED BY <1>0, <2>1, <2>6, <2>7, <3>1 DEF LodgingAhead
  <2> QED BY <1>0, <1>2, <2>1, <2>2, <2>8 DEF Ahead, SamplesAhead
<1>7. CASE q.what = "register"
  <2>1. run.stage = Stages + 3
    BY <1>0, <1>7 DEF AskedNow
  <2>2. UNCHANGED <<saved, lodging>>
    BY <1>7 DEF Acts
  <2> QED BY <1>0, <1>2, <1>3, <2>1, <2>2 DEF Ahead, SamplesAhead
<1>8. CASE q.what = "pay"
  <2>1. run.stage = Stages + 4
    BY <1>0, <1>8 DEF AskedNow
  <2>2. /\ UNCHANGED <<saved, lodging>>
        /\ sampled' = {r \in sampled : ~(r.by = run.n /\ r.sample = q.sample)}
                        \cup {[by |-> run.n, sample |-> q.sample, paid |-> TRUE]}
    BY <1>8 DEF Acts
  <2>3. ASSUME NEW x \in Samples PROVE Paid(x)' \/ ToPay(x)'
    <3>1. CASE x = q.sample
      BY <2>2, <3>1 DEF Paid
    <3>2. CASE x # q.sample /\ Paid(x)
      BY <2>2, <3>2 DEF Paid
    <3>3. CASE x # q.sample /\ ToPay(x)
      BY <1>1, <3>3 DEF ToPay
    <3> QED BY <1>0, <2>1, <3>1, <3>2, <3>3 DEF SamplesAhead
  <2> QED BY <1>0, <1>2, <1>3, <2>1, <2>2, <2>3 DEF Ahead, SamplesAhead
<1>9. CASE q.what = "check"
  <2>1. run.stage = Stages + 5
    BY <1>0, <1>9 DEF AskedNow
  <2>2. UNCHANGED <<saved, lodging, sampled>>
    BY <1>9 DEF Acts
  <2> QED BY <1>0, <1>2, <1>3, <2>1, <2>2 DEF Ahead, SamplesAhead, Paid
<1> QED BY <1>0, <1>4, <1>5, <1>6, <1>7, <1>8, <1>9, RequestIs

-----------------------------------------------------------------------------
(* The steps of a run.                                                       *)
LEMMA ImportStarts == ImportInit => ImportInv
<1> SUFFICES ASSUME ImportInit PROVE ImportInv
  OBVIOUS
<1>0. Stages \in Nat /\ MaxRuns \in Nat
  BY ImportAssumption, KindsAre DEF ImportAssumption
<1>1. saved \in SavedType /\ \A k \in Kind, x \in Names : saved[k][x] = NoRecord
  <2>1. NoRecord \in [copies : 0..MaxRuns, right : BOOLEAN]
    BY <1>0 DEF NoRecord
  <2> DEFINE Counts == [copies : 0..MaxRuns, right : BOOLEAN]
  <2>2. NoRecord \in Counts
    BY <2>1
  <2> HIDE DEF Counts
  <2>3. saved \in [Kind -> [Names -> Counts]]
    BY <2>2 DEF ImportInit
  <2> QED BY <2>3 DEF ImportInit, SavedType, Counts
<1>2. ImportTypeOK
  <2>1. run \in RunType
    BY <1>0 DEF ImportInit, RunType, Stages
  <2> QED BY <1>1, <2>1, ImportTyped DEF ImportInit
<1>3. SavedOnce
  BY <1>1 DEF SavedOnce, NoRecord, ImportInit
<1> QED BY <1>2, <1>3 DEF ImportInit, ImportInv, ImportKept, RunGoes, AskedNow, NodesUnder, NoOrphans,
                          SampledOnce

LEMMA StartKeeps ==
  ASSUME ImportInv, Start
  PROVE  ImportInv'
<1>0. /\ ImportTypeOK /\ saved \in SavedType /\ run.n \in 0..MaxRuns /\ run.n < MaxRuns
      /\ Stages \in Nat /\ MaxRuns \in Nat /\ SavedOnce /\ NoOrphans /\ SampledOnce
  BY ImportAssumption, KindsAre, ImportTyped, RunIs DEF ImportInv, ImportKept, ImportAssumption, Start
<1>1. /\ run' = [n |-> run.n + 1, stage |-> 1, listed |-> FALSE, at |-> "going", why |-> "none"]
      /\ asked = {} /\ asked' = {} /\ UNCHANGED <<lodging, sampled>>
  BY DEF Start
<1>2. saved' \in SavedType /\ \A k \in Kind, x \in Names :
        saved'[k][x].copies = saved[k][x].copies /\ saved'[k][x].right = FALSE
  <2> DEFINE Counts == [copies : 0..MaxRuns, right : BOOLEAN]
             now(k, x) == [saved[k][x] EXCEPT !.right = FALSE]
  <2>1. ASSUME NEW k \in Kind, NEW x \in Names
        PROVE  now(k, x) \in Counts /\ now(k, x).copies = saved[k][x].copies /\ now(k, x).right = FALSE
    <3>1. saved[k][x] \in Counts
      BY <1>0 DEF SavedType
    <3> QED BY <3>1
  <2>2. saved' = [k \in Kind |-> [x \in Names |-> now(k, x)]]
    BY DEF Start
  <2> HIDE DEF Counts, now
  <2>3. saved' \in [Kind -> [Names -> Counts]]
    BY <2>1, <2>2
  <2> QED BY <2>1, <2>2, <2>3 DEF SavedType, Counts
<1>3. ImportTypeOK'
  <2>1. run' \in RunType
    BY <1>0, <1>1 DEF RunType, Stages
  <2> QED BY <1>0, <1>1, <1>2, <2>1, ImportTyped, ImportTypedNext
<1>4. SavedOnce'
  BY <1>0, <1>1, <1>2 DEF SavedOnce
<1>5. AskedNow' /\ NodesUnder' /\ NoOrphans' /\ SampledOnce'
  BY <1>0, <1>1 DEF AskedNow, NodesUnder, NoOrphans, SampledOnce
<1>6. RunGoes'
  BY <1>0, <1>1 DEF RunGoes
<1>7. Ahead'
  BY <1>0, <1>1 DEF Ahead, RecordsAhead, LodgingAhead, SamplesAhead
<1> QED BY <1>3, <1>4, <1>5, <1>6, <1>7 DEF ImportInv, ImportKept

(* A stage's requests, all asked at once.                                    *)
LEMMA ListingKeeps ==
  ASSUME ImportInv, run.at = "going", ~run.listed, run' = [run EXCEPT !.listed = TRUE],
         UNCHANGED <<saved, lodging, sampled>>, asked' \subseteq Request,
         AskedNow', SavedOnce', NodesUnder', RecordsAhead', LodgingAhead', SamplesAhead'
  PROVE  ImportInv'
<1>0. ImportTypeOK /\ run \in RunType /\ NoOrphans /\ SampledOnce /\ RunGoes
  BY ImportTyped DEF ImportInv, ImportKept
<1>1. /\ run' \in RunType /\ run'.n = run.n /\ run'.stage = run.stage /\ run'.at = run.at
      /\ run'.listed
  BY <1>0 DEF RunType
<1>2. ImportTypeOK'
  BY <1>0, <1>1, ImportTyped, ImportTypedNext
<1>3. NoOrphans' /\ SampledOnce' /\ RunGoes'
  BY <1>0, <1>1 DEF NoOrphans, SampledOnce, RunGoes
<1> QED BY <1>2, <1>3 DEF ImportInv, ImportKept, Ahead

LEMMA ListsKeep ==
  ASSUME ImportInv, ListRecords \/ ListLodging \/ CreateRoot \/ SendSamples \/ CheckTemplates
  PROVE  ImportInv'
<1>0. /\ ImportTypeOK /\ run \in RunType /\ saved \in SavedType /\ lodging \subseteq Node
      /\ RunGoes /\ SavedOnce /\ run.stage \in Int /\ Stages \in Nat
      /\ \A i \in 1..Stages : RecordKinds[i] \in Kind
      /\ run.n \in 0..MaxRuns /\ MaxRuns \in Nat /\ IsTree
  BY ImportAssumption, ImportTyped, RunIs, KindsAre DEF ImportInv, ImportKept, ImportAssumption
<1>1. /\ run.at = "going" /\ ~run.listed /\ run' = [run EXCEPT !.listed = TRUE]
      /\ UNCHANGED <<saved, lodging, sampled>>
  BY DEF ListRecords, ListLodging, CreateRoot, SendSamples, CheckTemplates, InRecords, Clearing,
         Building, Registering, Paying, Checking
<1>2. /\ run'.n = run.n /\ run'.stage = run.stage /\ run'.listed /\ run'.at = "going"
      /\ run.n \in 1..MaxRuns /\ run.stage \in 1..(Stages + 5) /\ Ahead
  BY <1>0, <1>1 DEF RunType, RunGoes, ImportInv
<1>3. CASE ListRecords
  <2>1. run.stage \in 1..Stages
    BY <1>0, <1>2, <1>3 DEF ListRecords, InRecords, Stages
  <2> DEFINE k == RecordKinds[run.stage]
  <2>2. asked' = {Saving(k, x) : x \in Names} /\ k \in Kind
    BY <1>0, <1>3, <2>1 DEF ListRecords
  <2> HIDE DEF k
  <2>3. ASSUME NEW x \in Names
        PROVE  LET q == Saving(k, x) IN
               /\ q \in Request /\ q.what = "record" /\ q.kind = k /\ q.name = x /\ q.method # "PATCH"
               /\ q.method = "POST" <=> saved[k][x].copies = 0
    BY <2>2 DEF Saving, Request
  <2>4. asked' \subseteq Request /\ AskedNow'
    BY <1>2, <2>1, <2>2, <2>3 DEF AskedNow, k, Stages
  <2>5. SavedOnce'
    BY <1>0, <1>1, <2>2, <2>3 DEF SavedOnce
  <2>6. NodesUnder'
    BY <2>2, <2>3 DEF NodesUnder
  <2>7. \A x \in Names : ToSave(x)'
    BY <2>2, <2>3 DEF ToSave
  <2>8. RecordsAhead' /\ LodgingAhead' /\ SamplesAhead'
    BY <1>0, <1>1, <1>2, <2>1, <2>7 DEF Ahead, RecordsAhead, LodgingAhead, SamplesAhead, Right, Stages
  <2> QED BY <1>1, <2>4, <2>5, <2>6, <2>8, ListingKeeps
<1>4. CASE ListLodging
  <2>1. run.stage = Stages + 1
    BY <1>4 DEF ListLodging, Clearing, Stages
  <2>2. asked' = {[what |-> "clear", node |-> l, method |-> "DELETE"] : l \in lodging}
    BY <1>4 DEF ListLodging
  <2>3. asked' \subseteq Request /\ \A q \in asked' : q.what = "clear"
    BY <1>0, <2>2 DEF Request
  <2>4. AskedNow' /\ SavedOnce' /\ NodesUnder'
    BY <1>0, <1>1, <1>2, <2>1, <2>3 DEF AskedNow, SavedOnce, NodesUnder, Stages
  <2>5. ASSUME NEW l \in lodging PROVE ToClear(l)'
    <3> DEFINE q == [what |-> "clear", node |-> l, method |-> "DELETE"]
    <3>1. q \in asked' /\ q.what = "clear" /\ q.node = l
      BY <2>2
    <3> QED BY <3>1 DEF ToClear
  <2>6. RecordsAhead' /\ LodgingAhead' /\ SamplesAhead'
    BY <1>0, <1>1, <1>2, <2>1, <2>5 DEF Ahead, RecordsAhead, LodgingAhead, SamplesAhead, Right, Stages
  <2> QED BY <1>1, <2>3, <2>4, <2>6, ListingKeeps
<1>5. CASE CreateRoot
  <2>1. run.stage = Stages + 2
    BY <1>5 DEF CreateRoot, Building, Stages
  <2>2. asked' = {NewNode(Root)}
    BY <1>5 DEF CreateRoot
  <2>3. NewNode(Root) \in Request /\ NewNode(Root).what = "node"
        /\ NewNode(Root).node.by = run.n /\ NewNode(Root).node.key = Root
    BY <1>0, <1>2 DEF NewNode, Request, Node, IsTree
  <2>4. asked' \subseteq Request /\ AskedNow' /\ SavedOnce' /\ NodesUnder'
    BY <1>0, <1>1, <1>2, <2>1, <2>2, <2>3 DEF AskedNow, SavedOnce, NodesUnder, Stages
  <2>5. lodging = {}
    BY <1>1, <1>2, <2>1 DEF Ahead, LodgingAhead
  <2>6. ToMake(Root)'
    BY <1>2, <2>2 DEF ToMake, NewNode
  <2>7. RecordsAhead' /\ LodgingAhead' /\ SamplesAhead'
    BY <1>0, <1>1, <1>2, <2>1, <2>5, <2>6
       DEF Ahead, RecordsAhead, LodgingAhead, SamplesAhead, Right, There, Stages
  <2> QED BY <1>1, <2>4, <2>7, ListingKeeps
<1>6. CASE SendSamples
  <2>1. \/ run.stage = Stages + 3 /\ Registering
        \/ run.stage = Stages + 4 /\ ~Registering
    <3>1. Registering \/ Paying
      BY <1>6 DEF SendSamples
    <3>2. (Registering => run.stage = Stages + 3) /\ (Paying => run.stage = Stages + 4)
      BY DEF Registering, Paying, Stages
    <3>3. run.stage = Stages + 4 => ~Registering
      BY <1>0, <3>2
    <3> QED BY <3>1, <3>2, <3>3
  <2> DEFINE what == IF Registering THEN "register" ELSE "pay"
  <2>2. asked' = {[what |-> what, sample |-> x, method |-> "POST"] : x \in Samples}
    BY <1>6 DEF SendSamples
  <2>3. /\ what \in {"register", "pay"}
        /\ what = "register" => run.stage = Stages + 3
        /\ what = "pay" <=> run.stage = Stages + 4
    BY <1>0, <2>1
  <2> HIDE DEF what
  <2>4. asked' \subseteq Request /\ \A q \in asked' : q.what = what
    BY <2>2, <2>3 DEF Request
  <2>5. AskedNow' /\ SavedOnce' /\ NodesUnder'
    BY <1>0, <1>1, <1>2, <2>3, <2>4 DEF AskedNow, SavedOnce, NodesUnder, Stages
  <2>6. ASSUME run.stage = Stages + 4, NEW x \in Samples PROVE ToPay(x)'
    <3> DEFINE q == [what |-> what, sample |-> x, method |-> "POST"]
    <3>1. q \in asked' /\ q.what = "pay" /\ q.sample = x
      BY <2>2, <2>3, <2>6
    <3> QED BY <3>1 DEF ToPay
  <2>7. RecordsAhead' /\ LodgingAhead' /\ SamplesAhead'
    BY <1>0, <1>1, <1>2, <2>1, <2>6
       DEF Ahead, RecordsAhead, LodgingAhead, SamplesAhead, Right, There, Stages
  <2> QED BY <1>1, <2>4, <2>5, <2>7, ListingKeeps
<1>7. CASE CheckTemplates
  <2>1. run.stage = Stages + 5
    BY <1>7 DEF CheckTemplates, Checking, Stages
  <2>2. asked' = {[what |-> "check", method |-> "GET"]}
    BY <1>7 DEF CheckTemplates
  <2>3. asked' \subseteq Request /\ \A q \in asked' : q.what = "check"
    BY <2>2 DEF Request
  <2>4. AskedNow' /\ SavedOnce' /\ NodesUnder'
    BY <1>0, <1>1, <1>2, <2>1, <2>3 DEF AskedNow, SavedOnce, NodesUnder, Stages
  <2>5. RecordsAhead' /\ LodgingAhead' /\ SamplesAhead'
    BY <1>0, <1>1, <1>2, <2>1
       DEF Ahead, RecordsAhead, LodgingAhead, SamplesAhead, Right, There, Paid, Stages
  <2> QED BY <1>1, <2>3, <2>4, <2>5, ListingKeeps
<1> QED BY <1>3, <1>4, <1>5, <1>6, <1>7

LEMMA NextStageKeeps ==
  ASSUME ImportInv, NextStage
  PROVE  ImportInv'
<1>0. /\ ImportKept /\ run \in RunType /\ RunGoes /\ run.stage \in Int /\ Stages \in Nat
      /\ run.at = "going" /\ run.listed /\ asked = {} /\ Ahead
      /\ run.stage \in 1..(Stages + 5) /\ run.n \in 0..MaxRuns /\ IsTree
  BY ImportAssumption, ImportTyped, RunIs, KindsAre
     DEF ImportInv, ImportKept, ImportAssumption, NextStage, RunGoes
<1>1. /\ run'.n = run.n /\ run'.stage = run.stage + 1 /\ run'.listed = FALSE
      /\ run'.at = IF run.stage = Stages + 5 THEN "done" ELSE "going"
      /\ run' \in RunType /\ asked' = {} /\ UNCHANGED <<saved, lodging, sampled>>
  <2>1. /\ run' = [run EXCEPT !.stage = @ + 1, !.listed = FALSE,
                              !.at = IF Checking THEN "done" ELSE "going"]
        /\ asked' = {} /\ UNCHANGED <<saved, lodging, sampled>>
    BY <1>0 DEF NextStage
  <2>2. Checking <=> run.stage = Stages + 5
    BY <1>0 DEF Checking, Stages
  <2>3. run.stage + 1 \in 0..(Len(RecordKinds) + 6)
    BY <1>0 DEF Stages
  <2> QED BY <1>0, <2>1, <2>2, <2>3 DEF RunType
<1>2. ImportKept'
  <2>1. ImportTypeOK'
    BY <1>0, <1>1, ImportTyped, ImportTypedNext DEF ImportKept
  <2> QED BY <1>0, <1>1, <2>1 DEF ImportKept, AskedNow, SavedOnce, NodesUnder, NoOrphans, SampledOnce
<1>3. RunGoes'
  BY <1>0, <1>1 DEF RunGoes, Stages
<1>4. RecordsAhead'
  <2>1. \A i \in 1..Stages : i < run.stage + 1 => \A x \in Names : Right(RecordKinds[i], x)
    BY <1>0 DEF Ahead, RecordsAhead, ToSave
  <2> QED BY <1>1, <2>1 DEF RecordsAhead, Right, Stages
<1>5. LodgingAhead'
  <2>1. run.stage = Stages + 1 => lodging = {}
    BY <1>0 DEF Ahead, LodgingAhead, ToClear
  <2>2. run.stage > Stages => \A l \in lodging : l.by = run.n
    BY <1>0, <2>1 DEF Ahead, LodgingAhead
  <2>3. run.stage > Stages + 1 => \A k \in NodeKeys : There(k)
    <3>1. CASE run.stage = Stages + 2
      <4> DEFINE S == {k \in NodeKeys : There(k)}
      <4>1. Root \in S /\ Closed(S)
        BY <1>0, <3>1 DEF Ahead, LodgingAhead, ToMake, Closed, IsTree
      <4> HIDE DEF S
      <4>2. NodeKeys \subseteq S
        BY <1>0, <4>1, WholeTree
      <4> QED BY <4>2 DEF S
    <3>2. CASE run.stage > Stages + 2
      BY <1>0, <3>2 DEF Ahead, LodgingAhead
    <3> QED BY <1>0, <3>1, <3>2
  <2> QED BY <1>0, <1>1, <2>1, <2>2, <2>3 DEF LodgingAhead, There, Stages
<1>6. SamplesAhead'
  <2>1. run.stage > Stages + 3 => \A x \in Samples : Paid(x)
    BY <1>0 DEF Ahead, SamplesAhead, ToPay
  <2> QED BY <1>0, <1>1, <2>1 DEF SamplesAhead, Paid, Stages
<1> QED BY <1>2, <1>3, <1>4, <1>5, <1>6 DEF ImportInv, Ahead

LEMMA OverKeeps ==
  ASSUME ImportInv, Over
  PROVE  ImportInv'
<1>0. ImportKept /\ RunGoes /\ run \in RunType
  BY ImportTyped DEF ImportInv, ImportKept
<1>1. /\ run'.n = run.n /\ run'.stage = run.stage /\ run'.at = "failed" /\ run' \in RunType
      /\ run.at = "failing" /\ asked' = {} /\ UNCHANGED <<saved, lodging, sampled>>
  BY <1>0 DEF Over, RunType
<1>2. ImportKept'
  BY <1>0, <1>1, KeptByQuiet
<1> QED BY <1>0, <1>1, <1>2 DEF ImportInv, RunGoes

-----------------------------------------------------------------------------
(* What becomes of a request.                                                *)
LEMMA RequestStands ==
  ASSUME ImportInv, NEW q \in asked
  PROVE  /\ ImportKept /\ RunGoes /\ run \in RunType
         /\ run.at \in {"going", "failing"} /\ (run.at = "going" => Ahead)
BY ImportTyped DEF ImportInv, ImportKept, RunGoes, RunType

LEMMA FailsIs ==
  ASSUME run \in RunType, NEW why \in {"none", "lost", "refused", "gone"}, Fails(why)
  PROVE  /\ run' \in RunType /\ run'.n = run.n /\ run'.stage = run.stage /\ run'.at = "failing"
BY DEF Fails, RunType

LEMMA AnsweredKeeps ==
  ASSUME ImportInv, NEW q \in asked, Answered(q)
  PROVE  ImportInv'
<1>0. /\ ImportKept /\ RunGoes /\ run \in RunType /\ ImportTypeOK
      /\ run.at \in {"going", "failing"} /\ (run.at = "going" => Ahead)
  BY RequestStands DEF ImportKept
<1>1. /\ ~Gone(q) /\ Acts(q) /\ run' = run
      /\ asked' = (asked \ {q}) \cup (IF run.at = "going" THEN Follows(q) ELSE {})
  BY DEF Answered
<1>2. q.what = "record" /\ q.method = "POST" => q \notin asked'
  <2>1. ASSUME q.what = "record", q.method = "POST", q \in Follows(q) PROVE FALSE
    <3>1. q = [q EXCEPT !.method = "PATCH"] /\ q \in Request
      BY <1>0, <2>1, ImportAssumption, FollowsAre, ImportTyped
    <3>2. [q EXCEPT !.method = "PATCH"].method = "PATCH"
      BY <2>1, <3>1, RequestIs
    <3> QED BY <2>1, <3>1, <3>2
  <2> QED BY <1>1, <2>1
<1>3. ImportKept'
  BY <1>0, <1>1, <1>2, ImportAssumption, KeptByActs
<1>4. RunGoes'
  BY <1>0, <1>1 DEF RunGoes
<1>5. run.at = "going" => Ahead'
  BY <1>0, <1>1, ImportAssumption, AheadByActs
<1> QED BY <1>0, <1>1, <1>3, <1>4, <1>5 DEF ImportInv

LEMMA RequestRefusedKeeps ==
  ASSUME ImportInv, NEW q \in asked, RequestRefused(q)
  PROVE  ImportInv'
<1>0. /\ ImportKept /\ RunGoes /\ run \in RunType /\ run.at \in {"going", "failing"}
  BY RequestStands
<1>1. /\ asked' \subseteq asked /\ UNCHANGED <<saved, lodging, sampled>>
      /\ run' \in RunType /\ run'.n = run.n /\ run'.stage = run.stage /\ run'.at = "failing"
  <2>1. asked' \subseteq asked /\ UNCHANGED <<saved, lodging, sampled>>
    BY DEF RequestRefused
  <2>2. CASE run.at = "going"
    <3>1. PICK why \in {"refused", "gone"} : Fails(why)
      BY <2>2 DEF RequestRefused
    <3> QED BY <1>0, <2>1, <3>1, FailsIs
  <2>3. CASE run.at = "failing"
    BY <1>0, <2>1, <2>3 DEF RequestRefused
  <2> QED BY <1>0, <2>2, <2>3
<1>2. ImportKept'
  BY <1>0, <1>1, KeptByQuiet
<1> QED BY <1>0, <1>1, <1>2 DEF ImportInv, RunGoes

LEMMA SentAgainKeeps ==
  ASSUME ImportInv, NEW q \in asked, SentAgain(q)
  PROVE  ImportInv'
<1>0. ImportKept /\ RunGoes /\ run \in RunType /\ ImportTypeOK /\ q \in Request
  BY RequestStands, ImportTyped DEF ImportKept
<1>1. ~Gone(q) /\ Acts(q) /\ run' = run /\ asked' = asked /\ run.at = "going" /\ Ahead
      /\ q.method \in {"PUT", "DELETE"}
  BY RequestStands DEF SentAgain, Repeatable
<1>2. ImportKept'
  BY <1>0, <1>1, ImportAssumption, KeptByActs
<1>3. q.what # "node"
  BY <1>0, <1>1, RequestIs
<1>4. Ahead'
  BY <1>0, <1>1, <1>3, ImportAssumption, AheadByActs
<1> QED BY <1>0, <1>1, <1>2, <1>4 DEF ImportInv, RunGoes

LEMMA DroppedKeeps ==
  ASSUME ImportInv, NEW q \in asked, Dropped(q)
  PROVE  ImportInv'
<1>0. ImportKept /\ RunGoes /\ run \in RunType /\ run.at \in {"going", "failing"}
  BY RequestStands
<1>1. /\ asked' = asked \ {q} /\ run' \in RunType /\ run'.n = run.n /\ run'.stage = run.stage
      /\ run'.at = "failing"
  <2>1. CASE run.at = "going"
    BY <1>0, <2>1, FailsIs DEF Dropped
  <2>2. CASE run.at = "failing"
    BY <1>0, <2>2 DEF Dropped
  <2> QED BY <1>0, <2>1, <2>2
<1>2. ImportKept'
  <2>1. CASE UNCHANGED <<saved, lodging, sampled>>
    BY <1>0, <1>1, <2>1, KeptByQuiet
  <2>2. CASE ~Gone(q) /\ Acts(q)
    BY <1>0, <1>1, <2>2, ImportAssumption, KeptByActs
  <2> QED BY <2>1, <2>2 DEF Dropped
<1> QED BY <1>0, <1>1, <1>2 DEF ImportInv, RunGoes

LEMMA ImportInvKept ==
  ASSUME ImportInv, [ImportNext]_importVars
  PROVE  ImportInv'
<1>1. CASE Start
  BY <1>1, StartKeeps
<1>2. CASE ImportGoes
  BY <1>2, ListsKeep, NextStageKeeps, OverKeeps DEF ImportGoes
<1>3. ASSUME NEW q \in asked, Answered(q) \/ RequestRefused(q) \/ SentAgain(q) \/ Dropped(q)
      PROVE  ImportInv'
  BY <1>3, AnsweredKeeps, RequestRefusedKeeps, SentAgainKeeps, DroppedKeeps
<1>4. CASE UNCHANGED importVars
  BY <1>4 DEF importVars, ImportInv, ImportKept, RunGoes, Ahead, ImportTypeOK, AskedNow, SavedOnce,
              NodesUnder, NoOrphans, SampledOnce, RecordsAhead, LodgingAhead, SamplesAhead, Right,
              ToSave, ToClear, There, ToMake, NewNode, Paid, ToPay
<1> QED BY <1>1, <1>2, <1>3, <1>4 DEF ImportNext

LEMMA ImportAlways == ImportSpec => []ImportInv
<1> QED BY ImportStarts, ImportInvKept, PTL DEF ImportSpec

LEMMA InvIsWhole == ImportInv => ImportIsWhole
<1> SUFFICES ASSUME ImportInv, run.at = "done" PROVE ImportedAsDeclared
  BY DEF ImportInv, ImportKept, ImportIsWhole, ImportedAsDeclared
<1>0. /\ ImportTypeOK /\ SavedOnce /\ SampledOnce /\ Ahead /\ run.stage = Stages + 6
      /\ Stages \in Nat /\ saved \in SavedType /\ lodging \subseteq Node /\ sampled \subseteq SampledType
  BY ImportAssumption, ImportTyped, KindsAre DEF ImportInv, ImportKept, RunGoes
<1>1. ASSUME NEW k \in Kind, NEW x \in Names
      PROVE  saved[k][x] = [copies |-> 1, right |-> TRUE]
  <2>1. PICK i \in 1..Stages : RecordKinds[i] = k
    BY ImportAssumption, KindsAre
  <2>2. saved[k][x].right
    BY <1>0, <2>1 DEF Ahead, RecordsAhead, Right
  <2>3. saved[k][x].copies = 1 /\ saved[k][x] \in [copies : 0..MaxRuns, right : BOOLEAN]
    BY <1>0, <2>2 DEF SavedOnce, SavedType
  <2>4. saved[k][x] = [copies |-> saved[k][x].copies, right |-> saved[k][x].right]
    BY <2>3
  <2>5. saved[k][x].right = TRUE
    BY <2>2, <2>3
  <2> QED BY <2>3, <2>4, <2>5
<1>2. lodging = [by : {run.n}, key : NodeKeys]
  <2>1. \A l \in lodging : l = [by |-> l.by, key |-> l.key] /\ l.by = run.n /\ l.key \in NodeKeys
    BY <1>0 DEF Node, Ahead, LodgingAhead
  <2>2. \A k \in NodeKeys : [by |-> run.n, key |-> k] \in lodging
    BY <1>0 DEF Ahead, LodgingAhead, There
  <2>3. lodging \subseteq [by : {run.n}, key : NodeKeys]
    BY <2>1
  <2>4. ASSUME NEW l \in [by : {run.n}, key : NodeKeys] PROVE l \in lodging
    <3>1. l = [by |-> run.n, key |-> l.key] /\ l.key \in NodeKeys
      OBVIOUS
    <3> QED BY <2>2, <3>1
  <2> QED BY <2>3, <2>4
<1>3. {r \in sampled : r.by = run.n} = [by : {run.n}, sample : Samples, paid : {TRUE}]
  <2>1. \A x \in Samples : [by |-> run.n, sample |-> x, paid |-> TRUE] \in sampled
    BY <1>0 DEF Ahead, SamplesAhead, Paid
  <2>2. ASSUME NEW r \in sampled, r.by = run.n
        PROVE  r = [by |-> run.n, sample |-> r.sample, paid |-> TRUE] /\ r.sample \in Samples
    <3>1. r.sample \in Samples
      BY <1>0 DEF SampledType
    <3> DEFINE s == [by |-> run.n, sample |-> r.sample, paid |-> TRUE]
    <3>2. s \in sampled /\ s.by = r.by /\ s.sample = r.sample
      BY <2>1, <2>2, <3>1
    <3> HIDE DEF s
    <3>3. r = s
      BY <1>0, <3>2 DEF SampledOnce
    <3> QED BY <3>1, <3>3 DEF s
  <2>3. ASSUME NEW r \in [by : {run.n}, sample : Samples, paid : {TRUE}]
        PROVE  r \in sampled /\ r.by = run.n
    <3>1. r = [by |-> run.n, sample |-> r.sample, paid |-> TRUE] /\ r.sample \in Samples
      OBVIOUS
    <3> QED BY <2>1, <3>1
  <2>4. ASSUME NEW r \in sampled, r.by = run.n
        PROVE  r \in [by : {run.n}, sample : Samples, paid : {TRUE}]
    <3>1. /\ r = [by |-> run.n, sample |-> r.sample, paid |-> TRUE]
          /\ r.sample \in Samples
      BY <2>2, <2>4
    <3>2. \A x \in Samples :
            [by |-> run.n, sample |-> x, paid |-> TRUE] \in [by : {run.n}, sample : Samples, paid : {TRUE}]
      OBVIOUS
    <3> QED BY <3>1, <3>2
  <2> QED BY <2>3, <2>4
<1> QED BY <1>1, <1>2, <1>3 DEF ImportedAsDeclared

\* The import's state is what EventImport says it is, for any event declared and any number
\* of runs (import-tools/CamphoricEventCreator.ts).
THEOREM ImportTypeCorrect == ImportSpec => []ImportTypeOK
<1>1. ImportInv => ImportTypeOK
  BY DEF ImportInv, ImportKept
<1> QED BY <1>1, ImportAlways, PTL

\* However many runs failed before it, and wherever, a run that says it succeeded leaves each
\* record declared once and as declared, the lodging as declared, none of it twice, and its own
\* samples paid for; and no node of the lodging is ever there without the one over it, for any
\* records, any tree of lodging and any samples (CamphoricEventCreator.create).
THEOREM ImportAlwaysWhole == ImportSpec => []ImportIsWhole
<1> QED BY InvIsWhole, ImportAlways, PTL
=============================================================================
