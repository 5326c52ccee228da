-------------------------------- MODULE Search --------------------------------
(***************************************************************************)
(* What a search finds and what the client then sees: the query that the   *)
(* search service builds from its filters, and the age that the profile    *)
(* service computes for a profile the client opens.  Both are pure; the    *)
(* index is ProfileSync's.                                                 *)
(*                                                                         *)
(* The processes run in UTC, as the images do, so midnight of a date is    *)
(* midnight of the same date in the index.  OpenSearch is external: a term *)
(* filter is equality, multi_match asks for one common word, and the order *)
(* of the hits is any.                                                     *)
(***************************************************************************)
EXTENDS Integers, Sequences

CONSTANTS
  User,   \* user ids
  Word,   \* words of bios, cities and queries
  Place,  \* cities and countries
  Gender, \* MALE, FEMALE, OTHER
  Tag,    \* interests
  null    \* a field that is missing

Date == [year : Nat, month : 1 .. 12, day : 1 .. 31]

Leap(y) == y % 4 = 0 /\ (y % 100 # 0 \/ y % 400 = 0)

LeapDay(d) == d.month = 2 /\ d.day = 29

EarlierInYear(a, b) == a.month < b.month \/ (a.month = b.month /\ a.day < b.day)

NotAfter(a, b) == a.year < b.year \/ (a.year = b.year /\ ~EarlierInYear(b, a))

SameDay(a, b) == a.month = b.month /\ a.day = b.day

-----------------------------------------------------------------------------
(* The profile service *)

Age(birth, today) ==
  today.year - birth.year - (IF EarlierInYear(today, birth) THEN 1 ELSE 0)

(* mapProfile, as far as a search is concerned. *)
MapProfile(profile, today) ==
  [profile |-> profile, age |-> IF profile.birthDate = null THEN null ELSE Age(profile.birthDate, today)]

-----------------------------------------------------------------------------
(* The search service *)

(* The text is the bio and the city: displayName is always empty, since    *)
(* profile.updated brings no name.                                         *)
ProfileDocument ==
  [user : User, text : SUBSET Word, city : Place \union {null}, country : Place \union {null},
   gender : Gender \union {null}, birthDate : Date \union {null}, interests : SUBSET Tag,
   isActive : BOOLEAN]

SearchFilters ==
  [gender : Gender \union {null}, city : Place \union {null}, country : Place \union {null},
   interests : SUBSET Tag, minAge : Nat \union {null}, maxAge : Nat \union {null},
   from : Nat \union {null}, size : Nat \union {null}]

Term(value, filter) == filter # null => value = filter

(* An age of 0 is no filter. *)
Asked(age) == age # null /\ age # 0

(* new Date(year - n, month, day): a day that does not exist rolls over.   *)
YearsBefore(today, n) ==
  IF LeapDay(today) /\ ~Leap(today.year - n)
  THEN [year |-> today.year - n, month |-> 3, day |-> 1]
  ELSE [today EXCEPT !.year = @ - n]

(* mutant: the upper limit shifted by a year, to keep those of that age *)
InAgeRangeWide(birth, filters, today) ==
  Asked(filters.minAge) \/ Asked(filters.maxAge) =>
    /\ birth # null
    /\ Asked(filters.maxAge) => NotAfter(YearsBefore(today, filters.maxAge + 1), birth)
    /\ Asked(filters.minAge) => NotAfter(birth, YearsBefore(today, filters.minAge))

InAgeRange(birth, filters, today) ==
  Asked(filters.minAge) \/ Asked(filters.maxAge) =>
    /\ birth # null
    /\ Asked(filters.maxAge) => NotAfter(YearsBefore(today, filters.maxAge), birth)
    /\ Asked(filters.minAge) => NotAfter(birth, YearsBefore(today, filters.minAge))

Matches(doc, words, filters, today) ==
  /\ words # {} => words \intersect doc.text # {}
  /\ Term(doc.gender, filters.gender)
  /\ Term(doc.city, filters.city)
  /\ Term(doc.country, filters.country)
  /\ filters.interests # {} => filters.interests \intersect doc.interests # {}
  /\ doc.isActive
  /\ InAgeRange(doc.birthDate, filters, today)

From(filters) == IF filters.from = null THEN 0 ELSE filters.from
Size(filters) == IF filters.size = null THEN 20 ELSE filters.size

(* mutant: from counts pages *)
PageNumbered(ranking, filters) ==
  LET end == (From(filters) + 1) * Size(filters)
  IN  SubSeq(ranking, From(filters) * Size(filters) + 1, IF end <= Len(ranking) THEN end ELSE Len(ranking))

(* The hits of one page, out of a ranking of all that match. *)
Page(ranking, filters) ==
  LET end == From(filters) + Size(filters)
  IN  SubSeq(ranking, From(filters) + 1, IF end <= Len(ranking) THEN end ELSE Len(ranking))

Found(index, words, filters, today) ==
  {u \in User : index[u] # null /\ Matches(index[u], words, filters, today)}

(* OpenSearch ranks each document that matches once. *)
Ranks(ranking, found) ==
  /\ ranking \in Seq(found)
  /\ \A u \in found : \E i \in DOMAIN ranking : ranking[i] = u
  /\ \A i, j \in DOMAIN ranking : ranking[i] = ranking[j] => i = j
=============================================================================
