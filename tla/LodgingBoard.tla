---------------------------- MODULE LodgingBoard ----------------------------
(***************************************************************************)
(* The lodging timeline (pages/admin/lodging, useLodgingAssignment): an    *)
(* organizer drags campers between units and days.  A move shows at once,  *)
(* is sent without a version, and is put back when it is refused; the list *)
(* is refetched once the last move in flight has settled.  Other           *)
(* organizers move campers too, and the change feed says so.               *)
(*                                                                         *)
(* A stay is a set of the event's days, numbered 1..Days; the last is the  *)
(* day everyone leaves.  Pointers and pixels are a day they are over.      *)
(***************************************************************************)
EXTENDS Integers, FiniteSetsExt

CONSTANTS NoOne, Campers, Units, Days,
          MaxMoves,      \* bounds this tab's moves in a run
          MaxElsewhere   \* bounds the moves made in other tabs

ASSUME BoardAssumption ==
  /\ Days \in Nat \ {0} /\ MaxMoves \in Nat /\ MaxElsewhere \in Nat
  /\ NoOne \notin Campers /\ NoOne \notin Units

VARIABLES
  server,    \* where each camper is
  listed,    \* where this tab's list has them
  fetch,     \* a refetch of the list
  stale,     \* the list is to be refetched
  noticed,   \* the feed has gathered a change of campers
  moves,     \* the moves in flight
  resize,    \* the bar whose edge is held, as it was drawn when it was taken
  sent,      \* how many moves this tab has made
  elsewhere  \* how many other tabs have

boardVars == <<server, listed, fetch, stale, noticed, moves, resize, sent, elsewhere>>

AllDays == 1..Days
Place == [lodging : Units \cup {NoOne}, stay : SUBSET AllDays]
Nowhere == [lodging |-> NoOne, stay |-> {}]
NoFetch == [at |-> "none"]
NoBar == [camper |-> NoOne]

BoardTypeOK ==
  /\ {server, listed} \subseteq [Campers -> Place]
  /\ \/ fetch = NoFetch
     \/ fetch \in [at : {"sent"}, why : {"told", "focus"}]
     \/ fetch \in [at : {"read"}, why : {"told", "focus"}, got : [Campers -> Place]]
  /\ {stale, noticed} \subseteq BOOLEAN
  /\ moves \subseteq [n : 1..MaxMoves, camper : Campers, to : Place, at : {"sent", "saved", "failed"},
                      before : [Campers -> Place]]
  /\ resize = NoBar \/ resize \in [camper : Campers, lodging : Units, start : AllDays, length : AllDays]
  /\ sent \in 0..MaxMoves /\ elsewhere \in 0..MaxElsewhere

-----------------------------------------------------------------------------
(* Stays *)

\* Every day but the last; a one-day event keeps its only day.
StayableDays == IF Days > 1 THEN 1..(Days - 1) ELSE AllDays

\* Where a stay's bar starts and how far it reaches.
StayStart(stay) == Min(stay)
StayLength(stay) == Max(stay) - Min(stay) + 1

HasStayDays(stay) == stay \cap StayableDays # {}

\* A stay of `length' days from `start', as far as the days last.
StayFrom(days, start, length) ==
  LET first == IF start <= Max(days) THEN start ELSE Max(days)
      last == first + (IF length > 1 THEN length ELSE 1) - 1
  IN {d \in days : first <= d /\ d <= last}

\* A camper with no bar on the timeline waits beside it.
Unassigned(place) == place.lodging = NoOne \/ ~HasStayDays(place.stay)

\* How long a resized bar may be, `by' days longer or shorter than it was.
Resized(bar, by) ==
  LET room == Max({1, Max(StayableDays) - bar.start + 1})
  IN Min({Max({1, bar.length + by}), room})

-----------------------------------------------------------------------------
(* The list and its refetches *)

BoardInit ==
  /\ server = [c \in Campers |-> Nowhere]
  /\ listed = server
  /\ fetch = NoFetch /\ stale = FALSE /\ noticed = FALSE
  /\ moves = {} /\ resize = NoBar /\ sent = 0 /\ elsewhere = 0

Asked(why) == [at |-> "sent", why |-> why]

InvalidateOnly == stale' = TRUE /\ UNCHANGED fetch             \* mutant
\* invalidateQueries: a refetch under way is cancelled for a new one.
Invalidate == stale' = TRUE /\ fetch' = Asked("told")

FetchReads ==
  /\ fetch.at = "sent"
  /\ fetch' = [at |-> "read", why |-> fetch.why, got |-> server]
  /\ UNCHANGED <<server, listed, stale, noticed, moves, resize, sent, elsewhere>>

FetchShows ==
  /\ fetch.at = "read"
  /\ listed' = fetch.got /\ fetch' = NoFetch /\ stale' = FALSE
  /\ UNCHANGED <<server, noticed, moves, resize, sent, elsewhere>>

\* The window is focused: a list that is old, or known to be, is fetched again.
Focus ==
  /\ fetch = NoFetch
  /\ fetch' = Asked("focus")
  /\ UNCHANGED <<server, listed, stale, noticed, moves, resize, sent, elsewhere>>

\* Another tab moves a camper.
Elsewhere(c, place) ==
  /\ elsewhere < MaxElsewhere
  /\ place # server[c]
  /\ server' = [server EXCEPT ![c] = place]
  /\ elsewhere' = elsewhere + 1
  /\ noticed' = TRUE
  /\ UNCHANGED <<listed, fetch, stale, moves, resize, sent>>

\* The feed refetches what changed, once this tab moves nobody.
FlushNotices ==
  /\ noticed /\ moves = {}
  /\ noticed' = FALSE
  /\ Invalidate
  /\ UNCHANGED <<server, listed, moves, resize, sent, elsewhere>>

-----------------------------------------------------------------------------
(* Moves *)

\* onMutate: refetches are cancelled, and the list shows the move as made.
Move(c, place) ==
  /\ sent < MaxMoves
  /\ fetch' = NoFetch
  /\ listed' = [listed EXCEPT ![c] = place]
  /\ moves' = moves \cup {[n |-> sent + 1, camper |-> c, to |-> place, at |-> "sent", before |-> listed]}
  /\ sent' = sent + 1
  /\ UNCHANGED <<server, stale, noticed, elsewhere>>

\* onDragEnd, over a unit's row: a bar keeps its length, another camper gets the event's
\* usual one.  Dropped on the last day, the stay starts the day before.
Drop(c, u, day, usual) ==
  /\ resize = NoBar
  /\ LET length == IF Unassigned(listed[c]) THEN usual ELSE StayLength(listed[c].stay)
     IN Move(c, [lodging |-> u, stay |-> StayFrom(StayableDays, day, length)])
  /\ UNCHANGED resize

\* A bar dragged to the side, or Unassign.
Unassign(c) ==
  /\ resize = NoBar
  /\ listed[c].lodging # NoOne
  /\ Move(c, Nowhere)
  /\ UNCHANGED resize

HoldEdge(c) ==
  /\ resize = NoBar /\ ~Unassigned(listed[c])
  /\ resize' = [camper |-> c, lodging |-> listed[c].lodging,
                start |-> StayStart(listed[c].stay), length |-> StayLength(listed[c].stay)]
  /\ UNCHANGED <<server, listed, fetch, stale, noticed, moves, sent, elsewhere>>

\* Let go where the bar was drawn when it was taken, whatever has been shown since.
ReleaseEdge(by) ==
  /\ resize # NoBar
  /\ LET length == Resized(resize, by)
         days == resize.start..(resize.start + length - 1)
     IN IF length = resize.length
        THEN UNCHANGED <<server, listed, fetch, stale, noticed, moves, sent, elsewhere>>
        ELSE Move(resize.camper, [lodging |-> resize.lodging, stay |-> days \cap AllDays])
  /\ resize' = NoBar

\* The server takes a move whatever it has been told since...
MoveSaved(m) ==
  /\ m.at = "sent"
  /\ server' = [server EXCEPT ![m.camper] = m.to]
  /\ \E at \in {"saved", "failed"} : moves' = (moves \ {m}) \cup {[m EXCEPT !.at = at]}
  /\ noticed' = TRUE
  /\ UNCHANGED <<listed, fetch, stale, resize, sent, elsewhere>>

\* ...or refuses it, or never hears of it.
MoveRefused(m) ==
  /\ m.at = "sent"
  /\ moves' = (moves \ {m}) \cup {[m EXCEPT !.at = "failed"]}
  /\ UNCHANGED <<server, listed, fetch, stale, noticed, resize, sent, elsewhere>>

\* onError puts the list back as the move found it; onSettled refetches after the last.
SettleMove(m) ==
  /\ m.at \in {"saved", "failed"}
  /\ listed' = IF m.at = "failed" THEN m.before ELSE listed
  /\ moves' = moves \ {m}
  /\ IF moves = {m} THEN Invalidate ELSE UNCHANGED <<stale, fetch>>
  /\ UNCHANGED <<server, noticed, resize, sent, elsewhere>>

BoardNext ==
  \/ FetchReads \/ FetchShows \/ Focus \/ FlushNotices
  \/ \E c \in Campers :
       \/ \E u \in Units, day \in StayableDays, usual \in {0, Days} : Drop(c, u, day, usual)
       \/ Unassign(c) \/ HoldEdge(c)
       \/ \E u \in Units, d \in AllDays : Elsewhere(c, [lodging |-> u, stay |-> {d}])
       \/ Elsewhere(c, Nowhere)
  \/ \E by \in (-Days)..Days : ReleaseEdge(by)
  \/ \E m \in moves : MoveSaved(m) \/ MoveRefused(m) \/ SettleMove(m)

\* Requests are answered, answers handled, and the feed's timer fires.
BoardFairness ==
  /\ WF_boardVars(FetchReads) /\ WF_boardVars(FetchShows) /\ WF_boardVars(FlushNotices)
  /\ WF_boardVars(\E m \in moves : MoveSaved(m) \/ MoveRefused(m) \/ SettleMove(m))

BoardSpec == BoardInit /\ [][BoardNext]_boardVars /\ BoardFairness

-----------------------------------------------------------------------------
(* Properties *)

\* With nothing in flight and nothing to be refetched, the timeline shows where everyone
\* is: no rollback, late refetch or other tab's move leaves it otherwise for good.
QuietIsTrue ==
  moves = {} /\ fetch = NoFetch /\ ~stale /\ ~noticed => listed = server

\* No refetch this page asked for lands under a move still being saved, putting back the
\* camper's old place (useLodgingAssignment.ts:10-12, useEventChangeFeed.ts).
NoRefetchUnderMove == fetch # NoFetch /\ fetch.why = "told" => moves = {}

\* Every stay the timeline sends is drawn: it has a day, none of them the day of leaving.
StaysAreDrawn ==
  \A m \in moves : m.to.lodging # NoOne => m.to.stay # {} /\ m.to.stay \subseteq StayableDays

\* The lodging timeline ends up showing where everyone is, through refused moves and late
\* refetches, and sends only stays it draws (hooks/useLodgingAssignment.ts).
BoardIsTrue == QuietIsTrue /\ NoRefetchUnderMove /\ StaysAreDrawn

\* In the end the timeline shows where everyone is.
BoardCatchesUp == <>[](listed = server)
=============================================================================
