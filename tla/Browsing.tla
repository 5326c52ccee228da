------------------------------- MODULE Browsing -------------------------------
(***************************************************************************)
(* A client that searches page by page and opens the profiles it finds,    *)
(* while the indexer goes on and the days pass.  The client asks for the   *)
(* next page from where the last one ended, until a page is not full; each *)
(* page is a query of its own, run on that moment's index and day.         *)
(*                                                                         *)
(* OpenSearch is external: the order of those that match is any, and the   *)
(* same for two queries that differ only in their page as long as neither  *)
(* the index nor the range of birth dates changes.                         *)
(***************************************************************************)
EXTENDS Search, FiniteSets

CONSTANTS
  Document,  \* the documents that profile.updated may bring
  Request,   \* first pages that the client may ask for
  Day        \* the days on which it does

Query == [words : SUBSET Word, filters : SearchFilters]

ASSUME BrowsingAssumption ==
  /\ Document \subseteq ProfileDocument
  /\ Request \subseteq Query
  /\ \A request \in Request : From(request.filters) = 0
  /\ Day \subseteq Date
  /\ null \notin Int \union Date \union ProfileDocument \union Query

VARIABLES
  index,    \* index[u]: the document with id u, or null
  today,
  asked,    \* the last page asked for: its words and filters, or null
  ranking,  \* all that matched, in their order
  over,     \* the last page was not full
  shown,    \* the users found so far, each with the birth date it had in the index then, and the day
  calm      \* history: neither index nor day changed since the first page

vars == <<index, today, asked, ranking, over, shown, calm>>

Hit == [user : User, birthDate : Date \union {null}, on : Date]

Init ==
  /\ index \in {i \in [User -> Document \union {null}] : \A u \in User : i[u] # null => i[u].user = u}
  /\ today \in Day
  /\ asked = null
  /\ ranking = <<>> /\ over = TRUE /\ shown = <<>> /\ calm = FALSE

-----------------------------------------------------------------------------
(* The indexer, and the clock *)

(* mutant: without an id of its own, the document gets one of OpenSearch's *)
IndexUnnamed(doc) ==
  /\ \E u \in User : index' = [index EXCEPT ![u] = doc]
  /\ calm' = FALSE
  /\ UNCHANGED <<today, asked, ranking, over, shown>>

IndexProfile(doc) ==
  /\ index' = [index EXCEPT ![doc.user] = doc]
  /\ calm' = FALSE
  /\ UNCHANGED <<today, asked, ranking, over, shown>>

DeleteProfile(u) ==
  /\ index' = [index EXCEPT ![u] = null]
  /\ calm' = FALSE
  /\ UNCHANGED <<today, asked, ranking, over, shown>>

DayPasses(d) ==
  /\ NotAfter(today, d) /\ d # today
  /\ today' = d
  /\ calm' = FALSE
  /\ UNCHANGED <<index, asked, ranking, over, shown>>

-----------------------------------------------------------------------------
(* The client *)

FoundBy(request) == Found(index, request.words, request.filters, today)

(* The orders in which OpenSearch may rank them. *)
Rankings(request) ==
  {r \in [1 .. Cardinality(FoundBy(request)) -> FoundBy(request)] : Ranks(r, FoundBy(request))}

Hits(page) ==
  [i \in DOMAIN page |-> [user |-> page[i], birthDate |-> index[page[i]].birthDate, on |-> today]]

(* GET /v1/search/profiles: OpenSearch ranks as in r, and the answer is    *)
(* added to what the client has.                                           *)
SearchProfiles(request, r, before) ==
  LET page == Page(r, request.filters)
  IN  /\ asked' = request
      /\ ranking' = r
      /\ over' = (Len(page) < Size(request.filters))
      /\ shown' = before \o Hits(page)
      /\ UNCHANGED <<index, today>>

FirstPage(request) ==
  /\ \E r \in Rankings(request) : SearchProfiles(request, r, <<>>)
  /\ calm' = TRUE

Following(request) ==
  [request EXCEPT !.filters.from = From(request.filters) + Size(request.filters)]

NextPage ==
  /\ asked # null /\ ~over
  /\ \E r \in IF calm THEN {ranking} ELSE Rankings(Following(asked)) :
       SearchProfiles(Following(asked), r, shown)
  /\ UNCHANGED calm

Next ==
  \/ \E doc \in Document : IndexProfile(doc)
  \/ \E u \in User : DeleteProfile(u)
  \/ \E d \in Day : DayPasses(d)
  \/ \E request \in Request : FirstPage(request)
  \/ NextPage

Spec == Init /\ [][Next]_vars

-----------------------------------------------------------------------------
(* Properties *)

(* The id of a document is the user it describes: a hit's id is all that   *)
(* search returns.                                                         *)
TypeOK ==
  /\ index \in [User -> ProfileDocument \union {null}]
  /\ \A u \in User : index[u] # null => index[u].user = u
  /\ today \in Date
  /\ asked \in Query \union {null}
  /\ ranking \in Seq(User)
  /\ over \in BOOLEAN /\ calm \in BOOLEAN
  /\ shown \in Seq(Hit)

(* a day of the year before the anniversary of day *)
WithinYear(day, d) == d.year = day.year \/ (d.year = day.year + 1 /\ EarlierInYear(d, day))

(* A profile that the client opens, now or after midnight and with its     *)
(* birth date unchanged, shows no age below the limit asked for, and for a *)
(* year none above it.  Searches made on a 29th of February are left out   *)
(* of the lower limit.                                                     *)
AgesShown ==
  \A i \in DOMAIN shown :
    LET hit == shown[i]
        age == MapProfile(hit, today).age
    IN  /\ Asked(asked.filters.minAge) /\ ~LeapDay(hit.on) => age # null /\ age >= asked.filters.minAge
        /\ Asked(asked.filters.maxAge) /\ WithinYear(hit.on, today) => age # null /\ age <= asked.filters.maxAge

(* While the index and the day stand still, the pages up to one that is    *)
(* not full hold everyone who matches once, and nobody else.               *)
PagesComplete ==
  asked # null /\ over /\ calm =>
    /\ \A i \in DOMAIN shown : shown[i].user \in FoundBy(asked)
    /\ \A u \in FoundBy(asked) : \E i \in DOMAIN shown : shown[i].user = u
    /\ \A i, j \in DOMAIN shown : shown[i].user = shown[j].user => i = j

Unlimited(filters) == [filters EXCEPT !.minAge = null, !.maxAge = null]

(* What the guide says of maxAge: it is the highest age that is found.     *)
OldestAreFound ==
  asked # null /\ calm =>
    \A u \in User :
      /\ index[u] # null /\ Matches(index[u], asked.words, Unlimited(asked.filters), today)
      /\ MapProfile(index[u], today).age # null
      /\ Asked(asked.filters.maxAge) /\ ~Asked(asked.filters.minAge) /\ ~LeapDay(today)
      /\ MapProfile(index[u], today).age <= asked.filters.maxAge
      => u \in FoundBy(asked)

(* What it says of minAge: nobody younger is found.                        *)
YoungestAreOldEnough ==
  asked # null /\ calm /\ Asked(asked.filters.minAge) =>
    \A i \in DOMAIN shown : MapProfile(shown[i], today).age >= asked.filters.minAge
=============================================================================
