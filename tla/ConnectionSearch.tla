--------------------------- MODULE ConnectionSearch -------------------------
(***************************************************************************)
(* The searches of the launcher and of the connection manager              *)
(* (filterConnections and what it calls in guis/guis.go), and the short    *)
(* list the launcher shows when nothing is searched.                       *)
(*                                                                         *)
(* A query is taken after its syntax has been read: alternatives, each a   *)
(* sequence of terms, each a value looked for in a field or anywhere, or   *)
(* excluded.  Texts are sequences of letters, letters are numbers.  Times  *)
(* of use are counted in days, 0 is never.                                 *)
(***************************************************************************)
EXTENDS Integers, FiniteSets, Sequences, SequencesExt, FiniteSetsExt

Never == 0
TextFields == {"group", "host", "endpoint", "description"}

NoMatch == -1
MaxWindow == 3650
MaxPort == 65535
DefaultPort == 22
SSH == <<2, 2>>      \* the text of connectionTypeSSH

OccursIn(value, text) ==
    \E i \in 0..(Len(text) - Len(value)) : SubSeq(text, i + 1, i + Len(value)) = value

Before(s, t) ==
    \/ IsStrictPrefix(s, t)
    \/ \E i \in DOMAIN s \cap DOMAIN t : s[i] < t[i] /\ \A j \in 1..(i - 1) : s[j] = t[j]

-----------------------------------------------------------------------------
Text == Seq(Nat)
Profiles == [id : Nat \ {0}, name : Text, type : Text, port : Nat, favorite : BOOLEAN,
             used : Nat, texts : [TextFields -> Text]]

\* A term of an unknown field or without a value is an invalid one.
Terms ==
    LET Of(fields, values) == [field : fields, value : values, exclude : BOOLEAN]
    IN  Of({"favorite", "used"}, BOOLEAN) \cup Of({"within", "port"}, Nat)
        \cup Of({"type", "name", "any"} \cup TextFields, Text) \cup Of({"invalid"}, {<<>>})

\* connectionSearchValidationError: an unknown field, an empty value or an exclusion of
\* nothing is an invalid term, an empty alternative an invalid query.
ValidTerm(t) ==
    CASE t.field = "port"   -> t.value \in 1..MaxPort
      [] t.field = "within" -> t.value \in 1..MaxWindow
      [] OTHER              -> t.field # "invalid"

\* Variant: an invalid alternative is passed over.
ValidSomewhere(q) == \E i \in DOMAIN q : q[i] # <<>> /\ \A n \in DOMAIN q[i] : ValidTerm(q[i][n])

Valid(q) == \A i \in DOMAIN q : q[i] # <<>> /\ \A n \in DOMAIN q[i] : ValidTerm(q[i][n])

NameRank(p, value) ==
    CASE p.name = value                                -> 0
      [] p.name # value /\ IsPrefix(value, p.name)     -> 1
      [] ~IsPrefix(value, p.name) /\ OccursIn(value, p.name) -> 2
      [] OTHER                                         -> NoMatch

\* connectionUsedMatches, for a window of days that ends now.
UsedWithin(p, days, now) == p.used # Never /\ p.used \in (now - days)..now

If(condition, rank) == IF condition THEN rank ELSE NoMatch

\* connectionSearchTermRank.
TermRank(p, t, now) ==
    CASE t.field = "favorite" -> If(p.favorite = t.value, 3)
      [] t.field = "used"     -> If((p.used # Never) = t.value, 3)
      [] t.field = "within"   -> If(UsedWithin(p, t.value, now), 3)
      [] t.field = "port"     ->
            If(p.type = SSH /\ t.value = (IF p.port = 0 THEN DefaultPort ELSE p.port), 3)
      [] t.field = "type"     -> If(p.type = t.value, 3)
      [] t.field = "name"     -> NameRank(p, t.value)
      [] t.field \in TextFields -> If(OccursIn(t.value, p.texts[t.field]), 3)
      [] t.field = "any"      ->
            IF OccursIn(t.value, p.name) THEN 2
            ELSE If(OccursIn(t.value, p.type)
                    \/ \E f \in TextFields : OccursIn(t.value, p.texts[f]), 3)

\* Variant: no alternative asks for the name as a whole.
AsksNothing(terms) == FALSE

AsksName(terms) == Len(terms) = 1 /\ terms[1].field = "any" /\ ~terms[1].exclude

\* connectionSearchClauseRank.
ClauseRank(p, terms, now) ==
    LET rank == [n \in DOMAIN terms |-> TermRank(p, terms[n], now)]
        wanted == {n \in DOMAIN terms : ~terms[n].exclude}
    IN  CASE AsksName(terms) /\ NameRank(p, terms[1].value) # NoMatch ->
                NameRank(p, terms[1].value)
          [] \E n \in DOMAIN terms : terms[n].exclude = (rank[n] # NoMatch) -> NoMatch
          [] OTHER -> SumFunctionOnSet(rank, wanted)

\* connectionSearchRankAt: the best rank of an alternative.
Rank(p, q, now) ==
    LET ranks == {ClauseRank(p, q[i], now) : i \in DOMAIN q} \ {NoMatch}
    IN  IF ~Valid(q) \/ ranks = {} THEN NoMatch ELSE Min(ranks)

-----------------------------------------------------------------------------
\* sort.SliceStable, in an order in which no two elements are equal.
Sorted(set, before(_, _)) ==
    CHOOSE s \in [1..Cardinality(set) -> set] :
        /\ ToSet(s) = set
        /\ \A i, j \in DOMAIN s : i < j => before(s[i], s[j])

\* What a query finds, best first.
BetterMatch(p, o, q, now) ==
    IF Rank(p, q, now) # Rank(o, q, now) THEN Rank(p, q, now) < Rank(o, q, now)
    ELSE Before(p.name, o.name) \/ (p.name = o.name /\ p.id < o.id)

Found(profiles, q, now) ==
    Sorted({p \in profiles : Rank(p, q, now) # NoMatch},
           LAMBDA p, o : BetterMatch(p, o, q, now))

\* quickConnectionProjection: favourites, then the last used, then by name.
QuickBefore(p, o) ==
    CASE p.favorite # o.favorite -> p.favorite
      [] p.favorite = o.favorite /\ p.used # o.used -> p.used > o.used
      [] OTHER -> Before(p.name, o.name) \/ (p.name = o.name /\ p.id < o.id)

Limited(rows, limit) == SubSeq(rows, 1, Min({limit, Len(rows)}))
Projection(profiles, limit) == Limited(Sorted(profiles, QuickBefore), limit)

\* navigatorRows; the empty query is the empty sequence.
NavigatorRows(profiles, q, limit, now) ==
    IF q = <<>> THEN Projection(profiles, limit) ELSE Found(profiles, q, now)

\* indexProfileByID, 0 if there is none.
RowOf(rows, id) == Max({0} \cup {i \in DOMAIN rows : rows[i].id = id})

\* Variant: the selected profile is not added.
RowsWithoutSelection(profiles, q, limit, now, id) == NavigatorRows(profiles, q, limit, now)

\* navigatorRowsWithSelection: with nothing searched the selected profile is shown, in
\* front if it is not there already.
RowsWithSelection(profiles, q, limit, now, id) ==
    LET rows == NavigatorRows(profiles, q, limit, now)
        selected == {p \in profiles : p.id = id}
    IN  IF q # <<>> \/ RowOf(rows, id) # 0 \/ selected = {} THEN rows
        ELSE Limited(SetToSeq(selected) \o rows, limit)

-----------------------------------------------------------------------------
\* What a search means: the profiles that have all that one of the alternatives asks
\* for, and nothing of what it excludes.
Has(p, t, now) ==
    LET texts == {p.texts[f] : f \in TextFields}
        fields == IF t.field = "any" THEN texts \cup {p.name, p.type}
                  ELSE IF t.field \in TextFields THEN {p.texts[t.field]} ELSE {p.name}
    IN  CASE t.field = "favorite" -> p.favorite = t.value
          [] t.field = "used"     -> (p.used > 0) = t.value
          [] t.field = "within"   -> p.used > 0 /\ now - p.used \in 0..t.value
          [] t.field = "port"     -> p.type = SSH /\ t.value \in {p.port, DefaultPort}
                                     /\ (p.port = 0 \/ p.port = t.value)
          [] t.field = "type"     -> p.type = t.value
          [] OTHER -> \E text \in fields : OccursIn(t.value, text)

Readable(q) == \A terms \in ToSet(q) : terms # <<>> /\ \A t \in ToSet(terms) : ValidTerm(t)

Meant(p, q, now) ==
    \E i \in DOMAIN q : \A n \in DOMAIN q[i] : Has(p, q[i][n], now) # q[i][n].exclude
=============================================================================
