----------------------------- MODULE Repository -----------------------------
(***************************************************************************)
(* CustomerRepository of src/data/db.py: reads of chinook.db bound to one  *)
(* customer, and the recommendations computed from them.  The database is  *)
(* opened mode=ro, so it is chosen once and never changes.                 *)
(*                                                                         *)
(* Dates, album numbers, artist and genre names are numbers: the queries   *)
(* only compare and sort them.  Album 0 is a NULL AlbumId, which SQLite    *)
(* sorts first; NoGenre is a NULL GenreId.                                 *)
(***************************************************************************)
EXTENDS Integers, SequencesExt

CONSTANTS
  Customers, Invoices, Lines, Tracks, Albums, Artists, Genres, NoGenre,
  Databases,           \* the databases considered, a set of records
  MaxInvoiceLimit, MaxRecommendations, AffinityGenres,
  Limits, Years        \* the arguments a caller passes

ASSUME CapAssumption ==
  /\ MaxInvoiceLimit \in Nat \ {0} /\ MaxRecommendations \in Nat \ {0}
  /\ AffinityGenres \in Nat /\ Limits \subseteq Int

\* INTEGER PRIMARY KEY
ASSUME IdsAssumption ==
  /\ \A Ids \in {Invoices, Lines, Tracks, Artists, Genres} :
       IsFiniteSet(Ids) /\ Ids \subseteq Int
  /\ Albums \subseteq Int /\ NoGenre \notin Genres

VARIABLES
  chinook,  \* chinook.db
  answer    \* what the last direct caller of a repository got

repositoryVars == <<chinook, answer>>

\* customerOf, date, total: Invoice.  invoiceOf, trackOf: InvoiceLine.
\* albumOf, genreOf: Track.  artistOf: Album.
DatabaseShape ==
  [customerOf : [Invoices -> Customers], date : [Invoices -> Nat],
   total : [Invoices -> Nat], invoiceOf : [Lines -> Invoices],
   trackOf : [Lines -> Tracks], albumOf : [Tracks -> Albums \cup {0}],
   genreOf : [Tracks -> Genres \cup {NoGenre}], artistOf : [Albums -> Artists]]

ASSUME DatabaseAssumption == Databases \subseteq DatabaseShape

NotFound == [kind |-> "none"]
Nothing  == [ask |-> "nothing"]

Clamp(limit, most) ==
  IF limit < 1 THEN 1 ELSE IF limit > most THEN most ELSE limit

FirstOf(seq, n) == SubSeq(seq, 1, IF n < Len(seq) THEN n ELSE Len(seq))

\* ORDER BY: the n-th of S has n - 1 of them before it.  (SetToSortSeq of the
\* library is built on SortSeq, which the prover cannot expand.)
InOrder(S, Before(_, _)) ==
  [n \in 1 .. Cardinality(S) |->
     CHOOSE x \in S : Cardinality({y \in S : Before(y, x)}) = n - 1]

-----------------------------------------------------------------------------
(* Billing reads *)

BuyerOf(l)     == chinook.customerOf[chinook.invoiceOf[l]]
OwnInvoices(c) == {i \in Invoices : chinook.customerOf[i] = c}
OwnLines(c)    == {l \in Lines : BuyerOf(l) = c}

\* ORDER BY InvoiceDate DESC, InvoiceId DESC
Newer(i, j) == \/ chinook.date[i] > chinook.date[j]
               \/ chinook.date[i] = chinook.date[j] /\ i > j

ListInvoices(c, limit) ==
  FirstOf(InOrder(OwnInvoices(c), Newer), Clamp(limit, MaxInvoiceLimit))

\* _LINES_SQL: names the customer again, beside the invoice.
LinesShown(c, i) == {l \in Lines : chinook.invoiceOf[l] = i /\ BuyerOf(l) = c}

\* None when the invoice is someone else's, or nobody's.
GetInvoiceDetail(c, i) ==
  IF i \in OwnInvoices(c)
    THEN [kind |-> "invoice", invoice |-> i, date |-> chinook.date[i],
          total |-> chinook.total[i], lines |-> LinesShown(c, i)]
    ELSE NotFound

\* strftime('%Y', InvoiceDate); a year is ten days here.
YearOf(date) == date \div 10
AnyYear == 0

\* Years: every year something was bought in, and perhaps others.
ASSUME YearsAssumption ==
  /\ IsFiniteSet(Years) /\ AnyYear \notin Years
  /\ \A db \in Databases : \A i \in Invoices : YearOf(db.date[i]) \in Years

\* GROUP BY CustomerId: one group, or no row when nothing was bought.
Spent(S) == FoldFunctionOnSet(+, 0, chinook.total, S)

GetSpendSummary(c, year) ==
  LET S == {i \in OwnInvoices(c) : year = AnyYear \/ YearOf(chinook.date[i]) = year}
      dates == {chinook.date[i] : i \in S}
  IN  IF S = {} THEN [count |-> 0, spent |-> 0, first |-> 0, last |-> 0]
      ELSE [count |-> Cardinality(S), spent |-> Spent(S),
            first |-> Min(dates), last |-> Max(dates)]

AnyLine(c, l) == [kind |-> "line", line |-> l, invoice |-> chinook.invoiceOf[l]]

\* The ownership check of a refund: a line that does not resolve has none.
GetInvoiceLine(c, l) ==
  IF l \in OwnLines(c)
    THEN [kind |-> "line", line |-> l, invoice |-> chinook.invoiceOf[l]]
    ELSE NotFound

-----------------------------------------------------------------------------
(* The catalog, and what a customer bought of it *)

OwnedTracks(c) == {chinook.trackOf[l] : l \in OwnLines(c)}
HasArtist(t)   == chinook.albumOf[t] # 0
ArtistOf(t)    == chinook.artistOf[chinook.albumOf[t]]

\* GROUP BY x ORDER BY count(*) DESC, x
MostBought(S, bought) ==
  InOrder({x \in S : bought[x] > 0},
          LAMBDA x, y : \/ bought[x] > bought[y]
                        \/ bought[x] = bought[y] /\ x < y)

LinesOfGenre(c, g)  == {l \in OwnLines(c) : chinook.genreOf[chinook.trackOf[l]] = g}
LinesOfArtist(c, a) == {l \in OwnLines(c) : /\ HasArtist(chinook.trackOf[l])
                                            /\ ArtistOf(chinook.trackOf[l]) = a}

GenreAffinity(c) ==
  FirstOf(MostBought(Genres, [g \in Genres |-> Cardinality(LinesOfGenre(c, g))]),
          AffinityGenres)

OwnedArtists(c) ==
  MostBought(Artists, [a \in Artists |-> Cardinality(LinesOfArtist(c, a))])

\* ORDER BY AlbumId, TrackId
InCatalogOrder(S) ==
  InOrder(S, LAMBDA t, u : \/ chinook.albumOf[t] < chinook.albumOf[u]
                           \/ chinook.albumOf[t] = chinook.albumOf[u] /\ t < u)

TracksByArtist(a) == InCatalogOrder({t \in Tracks : HasArtist(t) /\ ArtistOf(t) = a})
TracksByGenre(g)  == InCatalogOrder({t \in Tracks : chinook.genreOf[t] = g})

\* row["ArtistName"] or f"__unknown_{track_id}"
ArtistKey(t) == IF HasArtist(t) THEN <<"artist", ArtistOf(t)>> ELSE <<"unknown", t>>

Picked(picks)  == {picks[n].track : n \in DOMAIN picks}
Credited(picks) == {ArtistKey(t) : t \in Picked(picks)}

NotYetOwned(t, owned, picks) == t \notin owned \cup Picked(picks)
NotYetTaken(t, owned, picks) ==
  NotYetOwned(t, owned, picks) /\ ArtistKey(t) \notin Credited(picks)

\* take(): append unowned tracks, at most one per artist, until the list is full.
Take(picks, rows, reason, owned, bound) ==
  FoldLeft(LAMBDA sofar, t : IF Len(sofar) < bound /\ NotYetTaken(t, owned, sofar)
                               THEN Append(sofar, [track |-> t, reason |-> reason])
                               ELSE sofar, picks, rows)

\* for each artist, or each genre: take(its tracks, ...)
TakeEach(picks, shelves, reason, owned, bound) ==
  FoldLeft(LAMBDA sofar, rows : Take(sofar, rows, reason, owned, bound), picks, shelves)

FromArtists(c, picks, owned, bound) ==
  LET artists == OwnedArtists(c)
  IN  TakeEach(picks, [n \in DOMAIN artists |-> TracksByArtist(artists[n])],
               "artist", owned, bound)
FromGenres(c, picks, owned, bound) ==
  LET genres == GenreAffinity(c)
  IN  TakeEach(picks, [n \in DOMAIN genres |-> TracksByGenre(genres[n])],
               "genre", owned, bound)

ArtistsFirst(c, owned, bound) == FromGenres(c, FromArtists(c, <<>>, owned, bound), owned, bound)

RecommendTracks(c, seed, limit) ==
  LET bound == Clamp(limit, MaxRecommendations)
      owned == OwnedTracks(c)
  IN  IF seed # NoGenre THEN Take(<<>>, TracksByGenre(seed), "seed", owned, bound)
                        ELSE ArtistsFirst(c, owned, bound)

-----------------------------------------------------------------------------
(* A caller with a repository of its own: a script, a test, the harness *)

RepositoryInit == chinook \in Databases /\ answer = Nothing

Answers(query, gives) ==
  answer = Nothing /\ answer' = [ask |-> query, gives |-> gives] /\ UNCHANGED chinook

Leave == answer # Nothing /\ answer' = Nothing /\ UNCHANGED chinook

AskInvoices(c, limit) ==
  Answers([read |-> "invoices", customer |-> c, limit |-> limit], ListInvoices(c, limit))
AskDetail(c, i) ==
  Answers([read |-> "detail", customer |-> c, invoice |-> i], GetInvoiceDetail(c, i))
AskSummary(c, year) ==
  Answers([read |-> "summary", customer |-> c, year |-> year], GetSpendSummary(c, year))
AskLine(c, l) ==
  Answers([read |-> "line", customer |-> c, line |-> l], GetInvoiceLine(c, l))
AskRecommendations(c, seed, limit) ==
  Answers([read |-> "recommend", customer |-> c, seed |-> seed, limit |-> limit],
          RecommendTracks(c, seed, limit))

Ask == \E c \in Customers :
  \/ \E limit \in Limits : AskInvoices(c, limit)
  \/ \E i \in Invoices : AskDetail(c, i)
  \/ \E year \in Years \cup {AnyYear} : AskSummary(c, year)
  \/ \E l \in Lines : AskLine(c, l)
  \/ \E seed \in Genres \cup {NoGenre}, limit \in Limits : AskRecommendations(c, seed, limit)

-----------------------------------------------------------------------------
(* What the answers must satisfy *)

Asked(read) == answer # Nothing /\ answer.ask.read = read

(***************************************************************************)
(* A recommendation is something the customer does not own, at most one    *)
(* track an artist, inside the genre asked for, and the list is as long as *)
(* the catalog allows: whatever was left out could not have been added.    *)
(* So an empty list means what recommend_for_me says of it, that nothing   *)
(* of their profile is left to buy.                                        *)
(***************************************************************************)
Profile(c, seed) ==
  IF seed # NoGenre THEN {t \in Tracks : chinook.genreOf[t] = seed}
  ELSE {t \in Tracks : \/ HasArtist(t) /\ ArtistOf(t) \in ToSet(OwnedArtists(c))
                       \/ chinook.genreOf[t] \in ToSet(GenreAffinity(c))}

RecommendationsAreFair ==
  Asked("recommend") =>
    LET ask   == answer.ask
        picks == answer.gives
        fresh == Profile(ask.customer, ask.seed) \ OwnedTracks(ask.customer)
    IN  /\ Picked(picks) \subseteq fresh
        /\ Cardinality(Credited(picks)) = Len(picks)
        /\ Len(picks) <= MaxRecommendations
        /\ Len(picks) < Clamp(ask.limit, MaxRecommendations)
             => \A t \in fresh : ArtistKey(t) \in Credited(picks)

(***************************************************************************)
(* Artists the customer already buys come first: no track is offered for   *)
(* its genre while one of those artists, not offered yet, has a track they *)
(* do not own.                                                             *)
(***************************************************************************)
FamiliarArtistsFirst ==
  Asked("recommend") =>
    \A n \in DOMAIN answer.gives :
      answer.gives[n].reason = "genre" =>
        \A a \in ToSet(OwnedArtists(answer.ask.customer)) :
          \/ ToSet(TracksByArtist(a)) \subseteq OwnedTracks(answer.ask.customer)
          \/ <<"artist", a>> \in Credited(FirstOf(answer.gives, n - 1))

\* The whole of what recommend_for_me may rely on.
RecommendationsAreSound == RecommendationsAreFair /\ FamiliarArtistsFirst

(***************************************************************************)
(* What a customer can refund is what they were shown: a line resolves for *)
(* a refund exactly when it is listed on an invoice they can open.  The    *)
(* two reads each check ownership in a query of their own.                 *)
(***************************************************************************)
RefundableIsShown ==
  Asked("line") =>
    LET c == answer.ask.customer
        l == answer.ask.line
    IN  answer.gives # NotFound <=>
          \E i \in Invoices : /\ GetInvoiceDetail(c, i) # NotFound
                              /\ l \in GetInvoiceDetail(c, i).lines

YearTotals(c) ==
  FoldLeft(LAMBDA sum, y : sum + GetSpendSummary(c, y).spent, 0, SetToSeq(Years))

(***************************************************************************)
(* The total computed in SQL is the total of the invoices the customer can *)
(* open, the years add up to it, and its dates are those of the newest and *)
(* the oldest invoice listed (get_spend_summary: "exact").                 *)
(***************************************************************************)
SummaryMatchesInvoices ==
  Asked("summary") /\ answer.ask.year = AnyYear =>
    LET c      == answer.ask.customer
        listed == ListInvoices(c, MaxInvoiceLimit)
    IN  /\ answer.gives.spent = Spent({i \in Invoices : GetInvoiceDetail(c, i) # NotFound})
        /\ answer.gives.spent = YearTotals(c)
        /\ answer.gives.count > 0 =>
             /\ answer.gives.last = chinook.date[Head(listed)]
             /\ answer.gives.count <= MaxInvoiceLimit =>
                  /\ Len(listed) = answer.gives.count
                  /\ answer.gives.first = chinook.date[Last(listed)]

\* The reads of one customer tell the same story of the same purchases.
ReadsAgree == RefundableIsShown /\ SummaryMatchesInvoices
=============================================================================
