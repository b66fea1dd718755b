---------------------------- MODULE Projections ----------------------------
(***************************************************************************)
(* The aggregates of the library that clients show next to its photos: the *)
(* hierarchy and the summary of the gallery, the travel records and the    *)
(* memories.  They are queries of their own; what makes them right is that *)
(* they agree with the photos a client gets when it opens what they count. *)
(***************************************************************************)
EXTENDS Gallery, Sequences, SequencesExt

Shown == {f \in File : InGallery(f)}
YearsShown == {date[f].year : f \in Shown}

----------------------------------------------------------------------------
(* hierarchy: DAILY photos have no location, unclassified ones share one   *)
(* leaf of the year, the others are under country, region and place.       *)

(* Mutant of Leaf: a photo of a registered place is never unclassified. *)
LeafByPlace(f) ==
    LET p == rel[f].place
    IN IF p # None THEN <<Location(f)["country"], Location(f)["region"], Registered(p)>>
       ELSE IF Unclassified(f) THEN <<NoLabel, NoLabel, Raw(NoLocation)>>
       ELSE <<Location(f)["country"], Location(f)["region"], Raw(Location(f))>>

Leaf(f) ==
    LET p == rel[f].place
    IN IF Unclassified(f) THEN <<NoLabel, NoLabel, Raw(NoLocation)>>
       ELSE <<Location(f)["country"], Location(f)["region"],
              IF p # None THEN Registered(p) ELSE Raw(Location(f))>>

InYear(y) == {f \in Shown : date[f].year = y}

Leaves(y) == {Leaf(f) : f \in {f \in InYear(y) : Normal(f)}}

YearNode(y) ==
    [count |-> Cardinality(InYear(y)),
     daily |-> Cardinality({f \in InYear(y) : category[f].daily}),
     unclassified |-> Cardinality({f \in InYear(y) : Unclassified(f)}),
     dateUnclassified |-> Cardinality({f \in InYear(y) : DateUnclassified(f)}),
     leaves |-> [l \in Leaves(y) |-> Cardinality({f \in InYear(y) : Normal(f) /\ Leaf(f) = l})]]

(* The request behind a leaf: a registered key is refined by the country   *)
(* and the region it stands under.                                         *)
LeafQuery(y, l) ==
    IF l[3].kind = "raw" THEN [AnyPhoto EXCEPT !.year = y, !.key = l[3]]
    ELSE [AnyPhoto EXCEPT !.year = y, !.key = l[3], !.country = l[1], !.region = l[2]]

(* summary *)
Summary ==
    [total |-> Cardinality(Shown),
     daily |-> Cardinality({f \in Shown : category[f].daily}),
     pending |-> Cardinality({f \in Shown : Unclassified(f)}),
     byYear |-> [y \in YearsShown |-> Cardinality(InYear(y))],
     byCountry |-> [c \in {Location(f)["country"] : f \in {f \in Shown : Normal(f)}} |->
                      Cardinality({f \in Shown : Normal(f) /\ Location(f)["country"] = c})]]

----------------------------------------------------------------------------
(* The travel records: places and countries by the dates of their photos.  *)

Dated == {f \in live : date[f] # NoState /\ date[f].at # None}

PlaceKey(f) == <<rel[f].place, Location(f)>>
PlaceKeys == {PlaceKey(f) : f \in Dated}
CountryOf(k) == k[2]["country"]
OfKey(k) == {f \in Dated : PlaceKey(f) = k}

(* Mutant of OfCountry: the country of the photo's own metadata. *)
OfCountryRaw(c) == {f \in Dated : RawLocation[f]["country"] = c}

OfCountry(c) == {f \in Dated : Location(f)["country"] = c}
DatesOf(F) == {date[f].at : f \in F}

(* count_consecutive_date_ranges *)
VisitCount(F) ==
    LET ordered == SetToSortSeq(DatesOf(F), LAMBDA a, b : a < b)
    IN IF ordered = << >> THEN 0
       ELSE 1 + Cardinality({i \in 2..Len(ordered) : ordered[i] # ordered[i - 1] + 1})

(* _representative_order: the latest photo, then the highest id.  (Photos  *)
(* with a thumbnail come first; here they all have theirs.)                *)
Representative(F) ==
    CHOOSE f \in F : \A g \in F : date[f].at > date[g].at \/ (date[f].at = date[g].at /\ f >= g)

----------------------------------------------------------------------------
(* memories: one photo for each past date, in four categories.             *)

WindowDays == 1
DayOf(d) == d % 10
DateInYear(d, y) == y * 10 + DayOf(d)
PreviousAnchor == DateInYear(Today, YearOf(Today) - 1)

(* _month_day_window_condition; the window may wrap around the year's end. *)
InWindow(d) ==
    LET start == DayOf(Today - WindowDays)
        end == DayOf(Today + WindowDays)
    IN IF start <= end THEN DayOf(d) >= start /\ DayOf(d) <= end
       ELSE DayOf(d) >= start \/ DayOf(d) <= end

(* _memory_candidate_statement *)
Candidates(D, less(_, _), limit) ==
    LET rows == SetToSortSeq(D, less)
        kept == SubSeq(rows, 1, IF Len(rows) < limit THEN Len(rows) ELSE limit)
    IN [i \in 1..Len(kept) |-> Representative({f \in Dated : date[f].at = kept[i]})]

Later(a, b) == a > b
Earlier(a, b) == a < b

PastDates == {d \in DatesOf(Dated) : d < Today}
BeforeLastYear(d) == d < (YearOf(Today) - 1) * 10

ExactAnniversary == Candidates({d \in PastDates : DayOf(d) = DayOf(Today)}, Later, Cardinality(File))

(* The sort of a category: the smallest offset from its anchor first, then *)
(* the latest date, then the highest id.                                   *)
ByOffset(s, anchor(_)) ==
    LET offset(f) == DistanceM(date[f].at, anchor(date[f].at))
        before(f, g) ==
            \/ offset(f) < offset(g)
            \/ offset(f) = offset(g) /\ date[f].at > date[g].at
            \/ offset(f) = offset(g) /\ date[f].at = date[g].at /\ f > g
    IN SortSeq(s, before)

LastYearWindow == {d \in PastDates : DistanceM(d, PreviousAnchor) <= WindowDays}

PreviousYearPeriod ==
    ByOffset(SelectSeq(Candidates(LastYearWindow, Later, Cardinality(File)),
                       LAMBDA f : date[f].at \notin DatesOf(Range(ExactAnniversary))),
             LAMBDA d : PreviousAnchor)

PastYearPeriod(limit) ==
    ByOffset(SelectSeq(Candidates({d \in PastDates : BeforeLastYear(d) /\ InWindow(d)}, Later, 4 * limit),
                       LAMBDA f : f \notin Range(ExactAnniversary) \cup Range(PreviousYearPeriod)),
             LAMBDA d : DateInYear(Today, YearOf(d)))

(* Mutant of LongAgo: the photos of past years' periods come again. *)
LongAgoAgain(limit) ==
    SelectSeq(Candidates({d \in PastDates : BeforeLastYear(d)}, Earlier, 8 * limit),
              LAMBDA f : f \notin Range(ExactAnniversary) \cup Range(PreviousYearPeriod))

LongAgo(limit) ==
    SelectSeq(Candidates({d \in PastDates : BeforeLastYear(d)}, Earlier, 8 * limit),
              LAMBDA f : f \notin Range(ExactAnniversary) \cup Range(PreviousYearPeriod)
                                  \cup Range(PastYearPeriod(limit)))

(* _diverse_items: a round over the categories takes the next photo of     *)
(* each, as long as there are any and the limit allows.                    *)
DiverseItems(categories, limit) ==
    LET rounds == Max({Len(categories[i]) : i \in DOMAIN categories})
        round(n) == FlattenSeq([i \in 1..Len(categories) |->
                       IF n <= Len(categories[i]) THEN <<categories[i][n]>> ELSE << >>])
        all == FlattenSeq([n \in 1..rounds |-> round(n)])
    IN SubSeq(all, 1, IF Len(all) < limit THEN Len(all) ELSE limit)

Memories(limit) ==
    DiverseItems(<<ExactAnniversary, PreviousYearPeriod, PastYearPeriod(limit), LongAgo(limit)>>, limit)

----------------------------------------------------------------------------
(* What an aggregate counts is what a client gets that opens it: every     *)
(* leaf of a year and each of its counts has that many photos behind its   *)
(* request, and a photo of the year is a DAILY one or behind one leaf.     *)
OpensAsCounted ==
    \A y \in YearsShown :
       LET node == YearNode(y)
           leaves == Leaves(y)
           asked(q) == Matching([q EXCEPT !.year = y])
           behind(l) == Matching(LeafQuery(y, l))
       IN /\ node.daily = Cardinality(asked([AnyPhoto EXCEPT !.category = "DAILY"]))
          /\ node.unclassified = Cardinality(asked([AnyPhoto EXCEPT !.unclassified = TRUE]))
          /\ node.dateUnclassified = Cardinality(asked([AnyPhoto EXCEPT !.yearOnly = TRUE]))
          /\ \A l \in leaves : node.leaves[l] = Cardinality(behind(l))
          /\ \A f \in InYear(y) : Normal(f) => \E l \in leaves : f \in behind(l)
          /\ \A l, m \in leaves : l # m => behind(l) \cap behind(m) = {}

(* The totals are the sums of their parts: the photos of a year, those     *)
(* pending, and the photos and visits of a country and of its places.      *)
TotalsAdd ==
    /\ \A y \in YearsShown :
          LET node == YearNode(y)
          IN node.count = node.daily + MapThenSumSet(LAMBDA l : node.leaves[l], Leaves(y))
    /\ Summary.pending = MapThenSumSet(LAMBDA y : YearNode(y).unclassified, YearsShown)
    /\ \A c \in {CountryOf(k) : k \in PlaceKeys} :
          LET keys == {k \in PlaceKeys : CountryOf(k) = c}
          IN /\ Cardinality(OfCountry(c)) = MapThenSumSet(LAMBDA k : Cardinality(OfKey(k)), keys)
             /\ VisitCount(OfCountry(c)) <= MapThenSumSet(LAMBDA k : VisitCount(OfKey(k)), keys)

(* The memories of a day show a date once, only past ones, and as many as  *)
(* there are up to the limit, the anniversary first.                       *)
MemoriesDistinct ==
    \A limit \in 1..Cardinality(File) :
       LET items == Memories(limit)
           dates == [i \in DOMAIN items |-> date[items[i]].at]
           eligible == {d \in PastDates : BeforeLastYear(d) \/ DayOf(d) = DayOf(Today)} \cup LastYearWindow
       IN /\ IsInjective(dates) /\ Range(dates) \subseteq eligible
          /\ Len(items) = IF Cardinality(eligible) < limit THEN Cardinality(eligible) ELSE limit
          /\ ExactAnniversary # << >> => dates[1] % 10 = DayOf(Today)

=============================================================================
