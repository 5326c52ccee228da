----------------------------- MODULE SearchProofs -----------------------------
(***************************************************************************)
(* What the age filters of a search have to do with the ages that profiles *)
(* show, how its pages fit together, and what both mean for a client that  *)
(* browses while the index changes and the days pass.  All dates are UTC.  *)
(***************************************************************************)
EXTENDS Browsing, SequenceTheorems, TLAPS

USE BrowsingAssumption

LEMMA AgeIsInt ==
  ASSUME NEW birth \in Date, NEW day \in Date
  PROVE  Age(birth, day) \in Int
  <1>1. day.year \in Int /\ birth.year \in Int
    BY DEF Date
  <1> QED BY <1>1 DEF Age

(* On every day but a 29th of February, the lower age filter and the age   *)
(* of a profile agree: search.service.ts:68 and profile.service.ts:7-14.   *)
LEMMA MinAgeExact ==
  ASSUME NEW birth \in Date, NEW day \in Date, NEW n \in Nat, ~LeapDay(day)
  PROVE  NotAfter(birth, YearsBefore(day, n)) <=> Age(birth, day) >= n
  <1> DEFINE then == [day EXCEPT !.year = @ - n]
  <1>1. then.year = day.year - n /\ then.month = day.month /\ then.day = day.day
    BY DEF Date
  <1>2. YearsBefore(day, n) = then
    BY DEF YearsBefore
  <1>3. NotAfter(birth, then) <=> Age(birth, day) >= n
    BY <1>1 DEF NotAfter, EarlierInYear, Age, Date
  <1> QED BY <1>2, <1>3

(* The upper one does not: of the people whose age is the limit, it keeps  *)
(* those whose birthday is day (search.service.ts:67).                   *)
LEMMA MaxAgeExcludes ==
  ASSUME NEW birth \in Date, NEW day \in Date, NEW n \in Nat, ~LeapDay(day)
  PROVE  NotAfter(YearsBefore(day, n), birth) <=>
           \/ Age(birth, day) < n
           \/ Age(birth, day) = n /\ SameDay(birth, day)
  <1> DEFINE then == [day EXCEPT !.year = @ - n]
  <1>1. then.year = day.year - n /\ then.month = day.month /\ then.day = day.day
    BY DEF Date
  <1>2. YearsBefore(day, n) = then
    BY DEF YearsBefore
  <1>3. NotAfter(then, birth) <=>
           \/ Age(birth, day) < n
           \/ Age(birth, day) = n /\ SameDay(birth, day)
    BY <1>1 DEF NotAfter, EarlierInYear, Age, SameDay, Date
  <1> QED BY <1>2, <1>3

(* A page: as many of the ranking as there are, and Size at most.          *)
LEMMA PageFacts ==
  ASSUME NEW r \in Seq(User), NEW filters \in SearchFilters
  PROVE  /\ From(filters) \in Nat /\ Size(filters) \in Nat
         /\ Page(r, filters) \in Seq(User)
         /\ Len(Page(r, filters)) =
              IF Len(r) <= From(filters) THEN 0
              ELSE IF Len(r) <= From(filters) + Size(filters) THEN Len(r) - From(filters) ELSE Size(filters)
         /\ \A k \in 1 .. Len(Page(r, filters)) : Page(r, filters)[k] = r[From(filters) + k]
  <1>1. From(filters) \in Nat /\ Size(filters) \in Nat
    BY DEF From, Size, SearchFilters
  <1> DEFINE from == From(filters)
             size == Size(filters)
             last == IF from + size <= Len(r) THEN from + size ELSE Len(r)
  <1> HIDE DEF from, size
  <1>2. from \in Nat /\ size \in Nat
    BY <1>1 DEF from, size
  <1>3. last \in Nat /\ last <= Len(r)
    BY <1>2
  <1>4. Page(r, filters) = SubSeq(r, from + 1, last)
    BY DEF Page, from, size
  <1>5. \A k \in from + 1 .. last : r[k] \in User
    BY <1>2, <1>3
  <1>6. /\ Page(r, filters) \in Seq(User)
        /\ Len(Page(r, filters)) = IF from + 1 <= last THEN last - (from + 1) + 1 ELSE 0
        /\ \A k \in 1 .. last - (from + 1) + 1 : Page(r, filters)[k] = r[(from + 1) + k - 1]
    BY <1>2, <1>3, <1>4, <1>5, SubSeqProperties
  <1>7. Len(Page(r, filters)) =
          IF Len(r) <= from THEN 0 ELSE IF Len(r) <= from + size THEN Len(r) - from ELSE size
    BY <1>2, <1>6
  <1>8. ASSUME NEW k \in 1 .. Len(Page(r, filters))
        PROVE  Page(r, filters)[k] = r[from + k]
    <2>1. k \in 1 .. last - (from + 1) + 1 /\ (from + 1) + k - 1 = from + k
      BY <1>2, <1>3, <1>6
    <2> QED BY <1>6, <2>1
  <1> QED BY <1>1, <1>6, <1>7, <1>8 DEF from, size

(* What is where on a page. *)
LEMMA OnPage ==
  ASSUME NEW r \in Seq(User), NEW filters \in SearchFilters, NEW i \in Int
  PROVE  /\ i \in DOMAIN Page(r, filters) <=> i \in 1 .. Size(filters) /\ From(filters) + i \in DOMAIN r
         /\ i \in DOMAIN Page(r, filters) => Page(r, filters)[i] = r[From(filters) + i]
  <1>1. DOMAIN Page(r, filters) = 1 .. Len(Page(r, filters)) /\ DOMAIN r = 1 .. Len(r) /\ Len(r) \in Nat
    BY PageFacts, LenProperties
  <1>2. i \in 1 .. Len(Page(r, filters)) <=> i \in 1 .. Size(filters) /\ From(filters) + i \in 1 .. Len(r)
    <2> DEFINE from == From(filters)
               size == Size(filters)
               all  == Len(r)
               here == Len(Page(r, filters))
    <2>1. /\ from \in Nat /\ size \in Nat /\ all \in Nat
          /\ here = IF all <= from THEN 0 ELSE IF all <= from + size THEN all - from ELSE size
      BY <1>1, PageFacts
    <2> HIDE DEF from, size, all, here
    <2>2. i \in 1 .. here <=> i \in 1 .. size /\ from + i \in 1 .. all
      BY <2>1
    <2> QED BY <2>2 DEF from, size, all, here
  <1>3. \A k \in 1 .. Len(Page(r, filters)) : Page(r, filters)[k] = r[From(filters) + k]
    BY PageFacts
  <1>4. i \in DOMAIN Page(r, filters) <=> i \in 1 .. Size(filters) /\ From(filters) + i \in DOMAIN r
    BY <1>1, <1>2, Zenon
  <1>5. i \in DOMAIN Page(r, filters) => Page(r, filters)[i] = r[From(filters) + i]
    BY <1>1, <1>3, Zenon
  <1> QED BY <1>4, <1>5

(* Two pages of one ranking, the second asked for from where the first     *)
(* ends, have no user in common, and every user up to the end of the       *)
(* second is on one of them: nobody is lost or shown twice while the index *)
(* and its ranking stand still.                                            *)
THEOREM PagesFit ==
  ASSUME NEW found \in SUBSET User,
         NEW r \in Seq(User), Ranks(r, found),
         NEW first \in SearchFilters, NEW second \in SearchFilters,
         From(second) = From(first) + Size(first),
         NEW u \in User,
         NEW k \in DOMAIN r, r[k] = u,
         From(first) < k, k <= From(second) + Size(second)
  PROVE  \/ /\ \E i \in DOMAIN Page(r, first) : Page(r, first)[i] = u
            /\ \A j \in DOMAIN Page(r, second) : Page(r, second)[j] # u
         \/ /\ \E j \in DOMAIN Page(r, second) : Page(r, second)[j] = u
            /\ \A i \in DOMAIN Page(r, first) : Page(r, first)[i] # u
  <1>1. /\ From(first) \in Nat /\ Size(first) \in Nat
        /\ From(second) \in Nat /\ Size(second) \in Nat
        /\ k \in Nat
    BY DEF From, Size, SearchFilters
  <1>2. \A i \in DOMAIN r : r[i] = u <=> i = k
    BY DEF Ranks
  <1>3. ASSUME NEW f \in SearchFilters, NEW i \in DOMAIN Page(r, f)
        PROVE  i \in 1 .. Size(f) /\ (Page(r, f)[i] = u <=> From(f) + i = k)
    <2>1. i \in Int
      BY PageFacts, LenProperties
    <2>2. i \in 1 .. Size(f) /\ From(f) + i \in DOMAIN r
          /\ Page(r, f)[i] = r[From(f) + i]
      BY <2>1, OnPage
    <2> QED BY <1>2, <2>2
  <1>4. ASSUME NEW f \in SearchFilters, From(f) \in Nat, k - From(f) \in 1 .. Size(f)
        PROVE  \E i \in DOMAIN Page(r, f) : Page(r, f)[i] = u
    <2> DEFINE i == k - From(f)
    <2>1. i \in Int /\ From(f) + i = k
      BY <1>1, <1>4
    <2>2. i \in DOMAIN Page(r, f)
      BY <1>4, <2>1, OnPage
    <2> QED BY <1>3, <2>1, <2>2
  <1>5. CASE k <= From(second)
    <2>1. k - From(first) \in 1 .. Size(first)
      BY <1>1, <1>5
    <2>2. \A j \in DOMAIN Page(r, second) : Page(r, second)[j] # u
      <3>1. \A j \in 1 .. Size(second) : From(second) + j # k
        BY <1>1, <1>5
      <3> QED BY <1>3, <3>1
    <2> QED BY <1>1, <1>4, <2>1, <2>2
  <1>6. CASE k > From(second)
    <2>1. k - From(second) \in 1 .. Size(second)
      BY <1>1, <1>6
    <2>2. \A i \in DOMAIN Page(r, first) : Page(r, first)[i] # u
      <3>1. \A i \in 1 .. Size(first) : From(first) + i # k
        BY <1>1, <1>6
      <3> QED BY <1>3, <3>1
    <2> QED BY <1>1, <1>4, <2>1, <2>2
  <1> QED BY <1>1, <1>5, <1>6

-----------------------------------------------------------------------------
(* Ages, as time goes on *)

LEMMA NotAfterTransitive ==
  ASSUME NEW a \in Date, NEW b \in Date, NEW c \in Date, NotAfter(a, b), NotAfter(b, c)
  PROVE  NotAfter(a, c)
  BY DEF NotAfter, EarlierInYear, Date

LEMMA AgeGrows ==
  ASSUME NEW birth \in Date, NEW a \in Date, NEW b \in Date, NotAfter(a, b)
  PROVE  Age(birth, a) <= Age(birth, b)
  BY DEF NotAfter, EarlierInYear, Age, Date

(* What the upper limit keeps stays within it for a year. *)
LEMMA AgeWithinYear ==
  ASSUME NEW birth \in Date, NEW on \in Date, NEW day \in Date, NEW n \in Nat,
         NotAfter(YearsBefore(on, n), birth), WithinYear(on, day)
  PROVE  Age(birth, day) <= n
  <1> DEFINE then == YearsBefore(on, n)
  <1>1. /\ then.year = on.year - n
        /\ \/ then.month = on.month /\ then.day = on.day
           \/ LeapDay(on) /\ then.month = 3 /\ then.day = 1
    BY DEF YearsBefore, Date
  <1>2. NotAfter(then, birth)
    OBVIOUS
  <1> HIDE DEF then
  <1>3. CASE then.month = on.month /\ then.day = on.day
    BY <1>1, <1>2, <1>3 DEF NotAfter, EarlierInYear, WithinYear, Age, Date
  <1>4. CASE LeapDay(on) /\ then.month = 3 /\ then.day = 1
    BY <1>1, <1>2, <1>4 DEF NotAfter, EarlierInYear, WithinYear, Age, Date, LeapDay
  <1> QED BY <1>1, <1>3, <1>4

(* Whoever a search by age finds shows an age within the limits: the lower *)
(* one from the next query on for ever, the upper one for a year.          *)
LEMMA FoundAges ==
  ASSUME NEW birth \in Date \union {null}, NEW filters \in SearchFilters,
         NEW on \in Date, NEW day \in Date, NotAfter(on, day),
         InAgeRange(birth, filters, on)
  PROVE  LET age == IF birth = null THEN null ELSE Age(birth, day)
         IN  /\ Asked(filters.minAge) /\ ~LeapDay(on) => age # null /\ age >= filters.minAge
             /\ Asked(filters.maxAge) /\ WithinYear(on, day) => age # null /\ age <= filters.maxAge
  <1>1. filters.minAge \in Nat \union {null} /\ filters.maxAge \in Nat \union {null}
    BY DEF SearchFilters
  <1>3. birth # null => birth \in Date /\ Age(birth, on) \in Int /\ Age(birth, day) \in Int
    BY AgeIsInt
  <1>4. ASSUME Asked(filters.minAge), ~LeapDay(on)
        PROVE  birth # null /\ Age(birth, day) >= filters.minAge
    <2>1. birth # null /\ NotAfter(birth, YearsBefore(on, filters.minAge)) /\ filters.minAge \in Nat
      BY <1>1, <1>4 DEF InAgeRange, Asked
    <2>2. Age(birth, on) >= filters.minAge
      BY <1>3, <1>4, <2>1, MinAgeExact
    <2>3. Age(birth, on) <= Age(birth, day)
      BY <1>3, <2>1, AgeGrows
    <2> QED BY <1>1, <1>3, <2>1, <2>2, <2>3
  <1>5. ASSUME Asked(filters.maxAge), WithinYear(on, day)
        PROVE  birth # null /\ Age(birth, day) <= filters.maxAge
    <2>1. birth # null /\ NotAfter(YearsBefore(on, filters.maxAge), birth) /\ filters.maxAge \in Nat
      BY <1>1, <1>5 DEF InAgeRange, Asked
    <2> QED BY <1>3, <1>5, <2>1, AgeWithinYear
  <1>6. birth # null => Age(birth, day) # null
    BY <1>3
  <1> QED BY <1>4, <1>5, <1>6

-----------------------------------------------------------------------------
(* The client that browses *)

(* A hit was in the range of birth dates of its day. *)
HitKept(hit, filters) == InAgeRange(hit.birthDate, filters, hit.on) /\ NotAfter(hit.on, today)

HitsKept ==
  IF asked = null THEN shown = <<>> ELSE \A i \in DOMAIN shown : HitKept(shown[i], asked.filters)

(* While nothing changes, what is shown is the ranking up to the end of    *)
(* the last page.                                                          *)
ShownSoFar ==
  calm =>
    LET end == From(asked.filters) + Size(asked.filters)
    IN  /\ asked # null
        /\ Ranks(ranking, FoundBy(asked))
        /\ From(asked.filters) <= Len(ranking)
        /\ Len(shown) = IF Len(ranking) < end THEN Len(ranking) ELSE end
        /\ \A i \in 1 .. Len(shown) : shown[i].user = ranking[i]
        /\ over <=> Len(ranking) < end

IInv == TypeOK /\ HitsKept /\ ShownSoFar

LEMMA QueryFacts ==
  ASSUME NEW query \in Query
  PROVE  /\ query # null /\ query.filters \in SearchFilters /\ query.words \in SUBSET Word
         /\ From(query.filters) \in Nat /\ Size(query.filters) \in Nat
  <1>1. query # null /\ query.filters \in SearchFilters /\ query.words \in SUBSET Word
    BY DEF Query
  <1> QED BY <1>1 DEF From, Size, SearchFilters

(* The following page asks for the same, from where the last one ends. *)
LEMMA FollowingFacts ==
  ASSUME NEW query \in Query
  PROVE  /\ Following(query) \in Query
         /\ From(Following(query).filters) = From(query.filters) + Size(query.filters)
         /\ Size(Following(query).filters) = Size(query.filters)
         /\ FoundBy(Following(query)) = FoundBy(query)
         /\ \A birth, day :
              InAgeRange(birth, Following(query).filters, day) <=> InAgeRange(birth, query.filters, day)
  <1> DEFINE next == Following(query)
             end == From(query.filters) + Size(query.filters)
  <1>1. end \in Nat /\ end # null
    BY QueryFacts
  <1>2. /\ next.words = query.words
        /\ next.filters = [query.filters EXCEPT !.from = end]
    BY DEF Following, Query
  <1>3. /\ next.filters \in SearchFilters
        /\ next.filters.from = end
        /\ next.filters.size = query.filters.size
        /\ next.filters.gender = query.filters.gender /\ next.filters.city = query.filters.city
        /\ next.filters.country = query.filters.country
        /\ next.filters.interests = query.filters.interests
        /\ next.filters.minAge = query.filters.minAge /\ next.filters.maxAge = query.filters.maxAge
    BY <1>1, <1>2, QueryFacts DEF SearchFilters
  <1>4. next \in Query
    BY <1>1, <1>3 DEF Following, Query, SearchFilters
  <1>5. From(next.filters) = end /\ Size(next.filters) = Size(query.filters)
    BY <1>1, <1>3 DEF From, Size
  <1>6. \A birth, day : InAgeRange(birth, next.filters, day) <=> InAgeRange(birth, query.filters, day)
    BY <1>3 DEF InAgeRange
  <1>7. ASSUME NEW doc
        PROVE  Matches(doc, next.words, next.filters, today) <=>
                 Matches(doc, query.words, query.filters, today)
    BY <1>2, <1>3, <1>6 DEF Matches
  <1>8. FoundBy(next) = FoundBy(query)
    BY <1>7 DEF FoundBy, Found
  <1> QED BY <1>4, <1>5, <1>6, <1>8

(* The hits of a page: users of the ranking, found today. *)
LEMMA HitsFacts ==
  ASSUME TypeOK, NEW query \in Query, NEW r, Ranks(r, FoundBy(query))
  PROVE  LET page == Page(r, query.filters)
         IN  /\ r \in Seq(User)
             /\ Hits(page) \in Seq(Hit) /\ Len(Hits(page)) = Len(page)
             /\ \A i \in 1 .. Len(page) :
                  Hits(page)[i].user = page[i] /\ HitKept(Hits(page)[i], query.filters)
  <1> DEFINE page == Page(r, query.filters)
             found == FoundBy(query)
  <1>1. r \in Seq(found) /\ found \subseteq User
    BY DEF Ranks, FoundBy, Found
  <1>2. r \in Seq(User)
    BY <1>1
  <1>3. page \in Seq(User) /\ Len(page) \in Nat /\ DOMAIN page = 1 .. Len(page)
    BY <1>2, QueryFacts, PageFacts, LenProperties
  <1>4. ASSUME NEW i \in 1 .. Len(page)
        PROVE  page[i] \in found
    <2>1. From(query.filters) + i \in DOMAIN r /\ page[i] = r[From(query.filters) + i]
      BY <1>2, <1>3, QueryFacts, OnPage
    <2> QED BY <1>1, <2>1
  <1>5. ASSUME NEW i \in 1 .. Len(page)
        PROVE  /\ index[page[i]].birthDate \in Date \union {null} /\ page[i] \in User
               /\ InAgeRange(index[page[i]].birthDate, query.filters, today)
    <2>1. /\ page[i] \in User /\ index[page[i]] # null
          /\ Matches(index[page[i]], query.words, query.filters, today)
      BY <1>4 DEF FoundBy, Found
    <2>2. index[page[i]] \in ProfileDocument
      BY <2>1 DEF TypeOK
    <2>3. index[page[i]].birthDate \in Date \union {null}
      BY <2>2 DEF ProfileDocument
    <2> QED BY <2>1, <2>3 DEF Matches
  <1>6. today \in Date /\ NotAfter(today, today)
    <2>1. today \in Date
      BY DEF TypeOK
    <2> QED BY <2>1 DEF NotAfter, EarlierInYear, Date
  <1> HIDE DEF page
  <1>7. Hits(page) = [i \in 1 .. Len(page) |->
                       [user |-> page[i], birthDate |-> index[page[i]].birthDate, on |-> today]]
    BY <1>3 DEF Hits
  <1>8. \A i \in 1 .. Len(page) : Hits(page)[i] \in Hit
    BY <1>5, <1>6, <1>7 DEF Hit
  <1>9. Hits(page) \in Seq(Hit) /\ Len(Hits(page)) = Len(page)
    BY <1>3, <1>7, <1>8
  <1>10. ASSUME NEW i \in 1 .. Len(page)
         PROVE  Hits(page)[i].user = page[i] /\ HitKept(Hits(page)[i], query.filters)
    BY <1>5, <1>6, <1>7 DEF HitKept
  <1> QED BY <1>2, <1>9, <1>10 DEF page

LEMMA ConcatFacts ==
  ASSUME NEW S, NEW a \in Seq(S), NEW b \in Seq(S)
  PROVE  /\ a \o b \in Seq(S) /\ Len(a \o b) = Len(a) + Len(b)
         /\ \A i \in 1 .. Len(a) + Len(b) : (a \o b)[i] = IF i <= Len(a) THEN a[i] ELSE b[i - Len(a)]
  BY ConcatProperties

(* One query: what was shown before is kept, the page is added. *)
LEMMA SearchStep ==
  ASSUME TypeOK, NEW query \in Query, NEW r, Ranks(r, FoundBy(query)),
         NEW before \in Seq(Hit), \A i \in DOMAIN before : HitKept(before[i], query.filters),
         SearchProfiles(query, r, before), calm' \in BOOLEAN
  PROVE  /\ TypeOK' /\ HitsKept'
         /\ Len(shown') = Len(before) + Len(Page(r, query.filters))
         /\ \A i \in 1 .. Len(before) : shown'[i] = before[i]
         /\ \A i \in 1 .. Len(Page(r, query.filters)) :
              shown'[Len(before) + i].user = Page(r, query.filters)[i]
  <1> DEFINE page == Page(r, query.filters)
  <1>1. /\ asked' = query /\ ranking' = r /\ over' \in BOOLEAN
        /\ shown' = before \o Hits(page) /\ UNCHANGED <<index, today>>
    BY DEF SearchProfiles
  <1>2. /\ r \in Seq(User) /\ Hits(page) \in Seq(Hit) /\ Len(Hits(page)) = Len(page)
        /\ \A i \in 1 .. Len(page) :
             Hits(page)[i].user = page[i] /\ HitKept(Hits(page)[i], query.filters)
    BY HitsFacts
  <1> HIDE DEF page
  <1>3. /\ Len(before) \in Nat /\ DOMAIN before = 1 .. Len(before) /\ Len(Hits(page)) \in Nat
    BY <1>2, LenProperties
  <1>4. /\ shown' \in Seq(Hit) /\ Len(shown') = Len(before) + Len(page)
        /\ \A i \in 1 .. Len(before) + Len(page) :
             shown'[i] = IF i <= Len(before) THEN before[i] ELSE Hits(page)[i - Len(before)]
    <2> DEFINE hits == Hits(page)
    <2>1. hits \in Seq(Hit) /\ Len(hits) = Len(page) /\ shown' = before \o hits
      BY <1>1, <1>2
    <2> HIDE DEF hits
    <2>2. /\ before \o hits \in Seq(Hit) /\ Len(before \o hits) = Len(before) + Len(hits)
          /\ \A i \in 1 .. Len(before) + Len(hits) :
               (before \o hits)[i] = IF i <= Len(before) THEN before[i] ELSE hits[i - Len(before)]
      BY <2>1, ConcatFacts
    <2>3. /\ before \o hits \in Seq(Hit) /\ Len(before \o hits) = Len(before) + Len(page)
          /\ \A i \in 1 .. Len(before) + Len(page) :
               (before \o hits)[i] = IF i <= Len(before) THEN before[i] ELSE hits[i - Len(before)]
      BY <2>1, <2>2
    <2> QED BY <2>1, <2>3 DEF hits
  <1>5. \A i \in 1 .. Len(before) : shown'[i] = before[i]
    BY <1>2, <1>3, <1>4
  <1>6. \A i \in 1 .. Len(page) : shown'[Len(before) + i] = Hits(page)[i]
    <2> SUFFICES ASSUME NEW i \in 1 .. Len(page) PROVE shown'[Len(before) + i] = Hits(page)[i]
      OBVIOUS
    <2>1. /\ Len(before) + i \in 1 .. Len(before) + Len(page) /\ ~(Len(before) + i <= Len(before))
          /\ (Len(before) + i) - Len(before) = i
      BY <1>2, <1>3
    <2> QED BY <1>4, <2>1
  <1>7. TypeOK'
    BY <1>1, <1>2, <1>4 DEF TypeOK, Query
  <1>8. ASSUME NEW i \in DOMAIN shown' PROVE HitKept(shown'[i], query.filters)
    <2>1. i \in 1 .. Len(before) + Len(page)
      BY <1>4, <1>8, LenProperties
    <2>2. CASE i <= Len(before)
      BY <1>3, <1>5, <2>1, <2>2
    <2>3. CASE ~(i <= Len(before))
      <3>1. i - Len(before) \in 1 .. Len(page) /\ shown'[i] = Hits(page)[i - Len(before)]
        BY <1>2, <1>3, <1>4, <2>1, <2>3
      <3> QED BY <1>2, <3>1
    <2> QED BY <2>2, <2>3
  <1>9. HitsKept'
    BY <1>1, <1>8, QueryFacts DEF HitsKept, HitKept
  <1> QED BY <1>2, <1>4, <1>5, <1>6, <1>7, <1>9 DEF page

(* Where the last page ends, the next one begins. *)
LEMMA PageEnds ==
  ASSUME NEW r \in Seq(User), NEW filters \in SearchFilters, From(filters) <= Len(r)
  PROVE  LET end == From(filters) + Size(filters)
             page == Page(r, filters)
         IN  /\ From(filters) + Len(page) = IF Len(r) < end THEN Len(r) ELSE end
             /\ Len(page) < Size(filters) <=> Len(r) < end
  <1> DEFINE from == From(filters)
             size == Size(filters)
             all  == Len(r)
             here == Len(Page(r, filters))
  <1>1. /\ from \in Nat /\ size \in Nat /\ all \in Nat /\ from <= all
        /\ here = IF all <= from THEN 0 ELSE IF all <= from + size THEN all - from ELSE size
    BY PageFacts, LenProperties
  <1> HIDE DEF from, size, all, here
  <1>2. /\ from + here = IF all < from + size THEN all ELSE from + size
        /\ here < size <=> all < from + size
    BY <1>1
  <1> QED BY <1>2 DEF from, size, all, here

(* What the indexer and the clock do to what was found: nothing. *)
LEMMA ShownFacts ==
  ASSUME TypeOK, NEW i \in DOMAIN shown
  PROVE  shown[i] \in Hit /\ shown[i].on \in Date /\ shown[i].birthDate \in Date \union {null}
  <1>1. shown[i] \in Hit
    BY LenProperties, ElementOfSeq DEF TypeOK
  <1> QED BY <1>1 DEF Hit

LEMMA WorldStep ==
  ASSUME IInv, UNCHANGED <<asked, ranking, over, shown>>, calm' = FALSE,
         TypeOK', NotAfter(today, today')
  PROVE  IInv'
  <1>1. \A i \in DOMAIN shown : shown[i].on \in Date
    BY ShownFacts DEF IInv
  <1>2. today \in Date /\ today' \in Date
    BY DEF IInv, TypeOK
  <1>3. \A i \in DOMAIN shown : NotAfter(shown[i].on, today) => NotAfter(shown[i].on, today')
    BY <1>1, <1>2, NotAfterTransitive
  <1>4. HitsKept'
    BY <1>3 DEF IInv, HitsKept, HitKept
  <1> QED BY <1>4 DEF IInv, ShownSoFar

LEMMA FirstPageStep == ASSUME IInv, NEW request \in Request, FirstPage(request) PROVE IInv'
  <1> DEFINE filters == request.filters
             none == <<>>
  <1>1. PICK r \in Rankings(request) : SearchProfiles(request, r, <<>>)
    BY DEF FirstPage
  <1>2. request \in Query /\ From(filters) = 0 /\ filters \in SearchFilters
    BY QueryFacts
  <1>3. Ranks(r, FoundBy(request)) /\ r \in Seq(User)
    BY <1>1, <1>2, HitsFacts DEF IInv, Rankings
  <1>4. calm' = TRUE
    BY DEF FirstPage
  <1>5. none \in Seq(Hit) /\ Len(none) = 0 /\ DOMAIN none = {}
    BY EmptySeq
  <1>6. /\ TypeOK' /\ HitsKept'
        /\ Len(shown') = Len(none) + Len(Page(r, filters))
        /\ \A i \in 1 .. Len(Page(r, filters)) : shown'[Len(none) + i].user = Page(r, filters)[i]
    <2>1. SearchProfiles(request, r, none) /\ calm' \in BOOLEAN
      BY <1>1, <1>4
    <2> HIDE DEF none
    <2>2. \A i \in DOMAIN none : HitKept(none[i], request.filters)
      BY <1>5
    <2>3. TypeOK
      BY DEF IInv
    <2>4. none \in Seq(Hit)
      BY <1>5
    <2>5. request \in Query /\ Ranks(r, FoundBy(request))
      BY <1>2, <1>3
    <2> HIDE DEF filters
    <2>6. /\ TypeOK' /\ HitsKept'
          /\ Len(shown') = Len(none) + Len(Page(r, request.filters))
          /\ \A i \in 1 .. Len(Page(r, request.filters)) : shown'[Len(none) + i].user = Page(r, request.filters)[i]
      BY <2>1, <2>2, <2>3, <2>4, <2>5, SearchStep
    <2> QED BY <2>6 DEF filters
  <1>7. /\ asked' = request /\ ranking' = r /\ over' = (Len(Page(r, filters)) < Size(filters))
        /\ UNCHANGED <<index, today>>
    BY <1>1 DEF SearchProfiles
  <1> HIDE DEF none
  <1>8. Len(r) \in Nat /\ Size(filters) \in Nat /\ Len(Page(r, filters)) \in Nat
    BY <1>2, <1>3, PageFacts, LenProperties
  <1>9. \A i \in 1 .. Len(Page(r, filters)) : shown'[i].user = r[i]
    BY <1>2, <1>3, <1>5, <1>6, <1>8, PageFacts
  <1>10. /\ Len(shown') = IF Len(r) < Size(filters) THEN Len(r) ELSE Size(filters)
         /\ over' <=> Len(r) < Size(filters)
    <2>1. 0 <= Len(r) /\ 0 + Size(filters) = Size(filters) /\ 0 + Len(Page(r, filters)) = Len(Page(r, filters))
      BY <1>8
    <2>2. /\ Len(Page(r, filters)) = IF Len(r) < Size(filters) THEN Len(r) ELSE Size(filters)
          /\ Len(Page(r, filters)) < Size(filters) <=> Len(r) < Size(filters)
      BY <1>2, <1>3, <2>1, PageEnds
    <2>3. 0 + Len(Page(r, filters)) = Len(Page(r, filters))
      BY <1>8
    <2>4. Len(shown') = Len(Page(r, filters))
      BY <1>5, <1>6, <2>3
    <2> QED BY <1>7, <2>2, <2>4
  <1>11. FoundBy(request)' = FoundBy(request) /\ asked' # null
    BY <1>2, <1>7, QueryFacts DEF FoundBy, Found
  <1>12. ShownSoFar'
    <2>1. /\ From(filters) + Size(filters) = Size(filters) /\ From(filters) <= Len(r)
          /\ Len(shown') = Len(Page(r, filters))
      BY <1>2, <1>5, <1>6, <1>8
    <2>2. Ranks(r, FoundBy(asked)')
      BY <1>3, <1>7, <1>11 DEF FoundBy
    <2> QED BY <1>7, <1>9, <1>10, <1>11, <2>1, <2>2 DEF ShownSoFar
  <1> QED BY <1>6, <1>12 DEF IInv

LEMMA NextPageStep == ASSUME IInv, NextPage PROVE IInv'
  <1> DEFINE query == Following(asked)
             filters == query.filters
             page == Page(ranking, filters)
  <1>1. PICK r \in IF calm THEN {ranking} ELSE Rankings(query) : SearchProfiles(query, r, shown)
    BY DEF NextPage
  <1>2. asked \in Query /\ asked # null /\ ~over /\ UNCHANGED calm /\ calm \in BOOLEAN
    BY DEF NextPage, IInv, TypeOK, Query
  <1>3. /\ query \in Query /\ FoundBy(query) = FoundBy(asked)
        /\ From(filters) = From(asked.filters) + Size(asked.filters)
        /\ Size(filters) = Size(asked.filters)
        /\ \A birth, day : InAgeRange(birth, filters, day) <=> InAgeRange(birth, asked.filters, day)
    BY <1>2, FollowingFacts
  <1>4. filters \in SearchFilters /\ From(filters) \in Nat /\ Size(filters) \in Nat /\ query # null
    BY <1>3, QueryFacts
  <1>5. Ranks(r, FoundBy(query))
    BY <1>1, <1>3 DEF IInv, ShownSoFar, Rankings
  <1>6. /\ asked' = query /\ ranking' = r /\ over' = (Len(Page(r, filters)) < Size(filters))
        /\ UNCHANGED <<index, today>>
    BY <1>1 DEF SearchProfiles
  <1> HIDE DEF query
  <1>7. shown \in Seq(Hit) /\ \A i \in DOMAIN shown : HitKept(shown[i], filters)
    BY <1>2, <1>3 DEF IInv, TypeOK, HitsKept, HitKept
  <1>8. /\ TypeOK' /\ HitsKept'
        /\ Len(shown') = Len(shown) + Len(Page(r, filters))
        /\ \A i \in 1 .. Len(shown) : shown'[i] = shown[i]
        /\ \A i \in 1 .. Len(Page(r, filters)) : shown'[Len(shown) + i].user = Page(r, filters)[i]
    BY <1>1, <1>2, <1>3, <1>5, <1>7, SearchStep DEF IInv
  <1>9. CASE ~calm
    BY <1>2, <1>8, <1>9 DEF IInv, ShownSoFar
  <1>10. CASE calm
    <2>1. /\ r = ranking /\ ranking \in Seq(User) /\ Len(ranking) \in Nat
          /\ Len(shown) = From(filters) /\ From(filters) <= Len(ranking)
          /\ \A i \in 1 .. Len(shown) : shown[i].user = ranking[i]
      <3>1. /\ r = ranking /\ ranking \in Seq(User) /\ Len(ranking) \in Nat
        BY <1>1, <1>10, LenProperties DEF IInv, TypeOK
      <3> QED BY <1>2, <1>3, <1>4, <1>10, <3>1 DEF IInv, ShownSoFar
    <2>2. /\ page \in Seq(User) /\ Len(page) \in Nat
          /\ \A k \in 1 .. Len(page) : page[k] = ranking[From(filters) + k]
          /\ From(filters) + Len(page) =
               IF Len(ranking) < From(filters) + Size(filters) THEN Len(ranking) ELSE From(filters) + Size(filters)
          /\ Len(page) < Size(filters) <=> Len(ranking) < From(filters) + Size(filters)
      BY <1>4, <2>1, PageFacts, PageEnds, LenProperties
    <2> HIDE DEF page
    <2>3. /\ Len(shown') = From(filters) + Len(page)
          /\ \A i \in 1 .. Len(page) : shown'[From(filters) + i].user = page[i]
      BY <1>8, <2>1 DEF page
    <2>4. ASSUME NEW i \in 1 .. Len(shown') PROVE shown'[i].user = ranking[i]
      <3>1. CASE i <= From(filters)
        <4>1. i \in 1 .. Len(shown)
          BY <1>4, <2>1, <3>1
        <4> QED BY <1>8, <2>1, <4>1
      <3>2. CASE ~(i <= From(filters))
        <4> DEFINE k == i - From(filters)
        <4>1. k \in 1 .. Len(page) /\ From(filters) + k = i
          BY <1>4, <2>2, <2>3, <3>2
        <4> HIDE DEF k
        <4> QED BY <2>2, <2>3, <4>1
      <3> QED BY <3>1, <3>2
    <2>5. Ranks(ranking, FoundBy(asked)')
      <3>1. FoundBy(asked)' = FoundBy(query)
        BY <1>6 DEF FoundBy, Found
      <3> QED BY <1>5, <2>1, <3>1
    <2>6. over' <=> Len(ranking) < From(filters) + Size(filters)
      BY <1>6, <2>1, <2>2 DEF page
    <2>7. ShownSoFar'
      BY <1>4, <1>6, <2>1, <2>2, <2>3, <2>4, <2>5, <2>6 DEF ShownSoFar
    <2> QED BY <1>8, <2>7 DEF IInv
  <1> QED BY <1>2, <1>9, <1>10

-----------------------------------------------------------------------------
(* Theorems *)

LEMMA Inductive == Spec => []IInv
  <1>1. Init => IInv
    <2> SUFFICES ASSUME Init PROVE IInv
      OBVIOUS
    <2>1. <<>> \in Seq(User) /\ <<>> \in Seq(Hit)
      BY EmptySeq
    <2>2. TypeOK
      BY <2>1 DEF Init, TypeOK
    <2> QED BY <2>2 DEF Init, IInv, HitsKept, ShownSoFar
  <1>2. IInv /\ [Next]_vars => IInv'
    <2> SUFFICES ASSUME IInv, [Next]_vars PROVE IInv'
      OBVIOUS
    <2>0. today \in Date /\ NotAfter(today, today)
      <3>1. today \in Date
        BY DEF IInv, TypeOK
      <3> QED BY <3>1 DEF NotAfter, EarlierInYear, Date
    <2>1. ASSUME NEW doc \in Document, IndexProfile(doc) PROVE IInv'
      <3>1. doc \in ProfileDocument /\ doc.user \in User
        BY DEF ProfileDocument
      <3>2. TypeOK'
        BY <2>1, <3>1 DEF IInv, TypeOK, IndexProfile
      <3> QED BY <2>0, <2>1, <3>2, WorldStep DEF IndexProfile
    <2>2. ASSUME NEW u \in User, DeleteProfile(u) PROVE IInv'
      <3>1. TypeOK'
        BY <2>2 DEF IInv, TypeOK, DeleteProfile
      <3> QED BY <2>0, <2>2, <3>1, WorldStep DEF DeleteProfile
    <2>3. ASSUME NEW d \in Day, DayPasses(d) PROVE IInv'
      <3>1. TypeOK'
        BY <2>3 DEF IInv, TypeOK, DayPasses
      <3> QED BY <2>3, <3>1, WorldStep DEF DayPasses
    <2>4. CASE UNCHANGED vars
      BY <2>4 DEF vars, IInv, TypeOK, HitsKept, HitKept, ShownSoFar, FoundBy, Found
    <2> QED BY <2>1, <2>2, <2>3, <2>4, FirstPageStep, NextPageStep DEF Next
  <1> QED BY <1>1, <1>2, PTL DEF Spec

(* The index, the queries and the answers have their types, and a          *)
(* document's id is its user's (search.service.ts:44-48).                  *)
THEOREM TypeCorrect == Spec => []TypeOK
  <1>1. IInv => TypeOK
    BY DEF IInv
  <1> QED BY <1>1, Inductive, PTL

(* For all birth dates, days, limits and changes of the index: the range   *)
(* of birth dates that search.service.ts:64-69 builds and the age that     *)
(* profile.service.ts:7-14 computes agree to the extent of AgesShown.      *)
THEOREM SearchedAges == Spec => []AgesShown
  <1>1. IInv => AgesShown
    <2> SUFFICES ASSUME IInv, NEW i \in DOMAIN shown
                 PROVE  LET hit == shown[i]
                            age == MapProfile(hit, today).age
                        IN  /\ Asked(asked.filters.minAge) /\ ~LeapDay(hit.on) =>
                                 age # null /\ age >= asked.filters.minAge
                            /\ Asked(asked.filters.maxAge) /\ WithinYear(hit.on, today) =>
                                 age # null /\ age <= asked.filters.maxAge
      BY DEF AgesShown
    <2>1. today \in Date
      BY DEF IInv, TypeOK
    <2>2. asked # null
      BY EmptySeq DEF IInv, HitsKept
    <2>3. asked.filters \in SearchFilters /\ HitKept(shown[i], asked.filters)
      BY <2>2 DEF IInv, TypeOK, HitsKept, Query
    <2>4. shown[i].birthDate \in Date \union {null} /\ shown[i].on \in Date
      BY ShownFacts DEF IInv
    <2>5. MapProfile(shown[i], today).age =
            IF shown[i].birthDate = null THEN null ELSE Age(shown[i].birthDate, today)
      BY DEF MapProfile
    <2> QED BY <2>1, <2>3, <2>4, <2>5, FoundAges DEF HitKept
  <1> QED BY <1>1, Inductive, PTL

(* For any index, filters and size of the pages: the pages that a client   *)
(* collects while nothing changes are the whole answer, each user once     *)
(* (search.service.ts:72-83).                                              *)
THEOREM BrowsedAll == Spec => []PagesComplete
  <1>1. IInv => PagesComplete
    <2> SUFFICES ASSUME IInv, asked # null, over, calm
                 PROVE  /\ \A i \in DOMAIN shown : shown[i].user \in FoundBy(asked)
                        /\ \A u \in FoundBy(asked) : \E i \in DOMAIN shown : shown[i].user = u
                        /\ \A i, j \in DOMAIN shown : shown[i].user = shown[j].user => i = j
      BY DEF PagesComplete
    <2>1. /\ Ranks(ranking, FoundBy(asked)) /\ Len(shown) = Len(ranking)
          /\ \A i \in 1 .. Len(shown) : shown[i].user = ranking[i]
      BY DEF IInv, ShownSoFar
    <2>2. DOMAIN shown = 1 .. Len(shown) /\ DOMAIN ranking = 1 .. Len(ranking)
      BY LenProperties DEF IInv, TypeOK
    <2>3. \A i \in DOMAIN ranking : ranking[i] \in FoundBy(asked)
      BY <2>1, ElementOfSeq, LenProperties DEF Ranks
    <2> QED BY <2>1, <2>2, <2>3 DEF Ranks
  <1> QED BY <1>1, Inductive, PTL
=============================================================================
