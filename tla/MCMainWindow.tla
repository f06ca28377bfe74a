----------------------------- MODULE MCMainWindow ---------------------------
(***************************************************************************)
(* The main window checked in three scenarios with one next-state          *)
(* relation: searching and editing three profiles, the settings with their *)
(* writers and no profile, and both with little of either.                 *)
(***************************************************************************)
EXTENDS QuickLauncher

VARIABLE scenario

mcVars == <<windowVars, scenario>>

Profile(id, name, type, host, port, used) ==
    [id |-> id, name |-> name, type |-> type, port |-> port, favorite |-> FALSE, used |-> used,
     texts |-> [group |-> <<3>>, host |-> host, endpoint |-> host \o <<3>>, description |-> <<>>]]

\* Names that equal, begin with and contain the letter 2, and as words sort otherwise;
\* the limit is 2.
MCStock == {Profile(1, <<1, 2>>, SSH, <<3>>, 23, 0), Profile(2, <<2>>, <<4>>, <<>>, 0, 0),
            Profile(3, <<2, 1>>, SSH, <<1>>, 0, 1)}

Term(field, value) == [field |-> field, value |-> value, exclude |-> FALSE]
Not(t) == [t EXCEPT !.exclude = TRUE]

\* A word; two words, one of a name and one excluded; filters of either kind with
\* alternatives; and a query that cannot be read beside one that can.
MCQueries ==
    {<<>>,
     <<<<Term("any", <<2>>)>>>>,
     <<<<Term("name", <<1>>), Not(Term("host", <<1>>))>>>>,
     <<<<Term("favorite", TRUE)>>, <<Term("port", DefaultPort), Term("used", FALSE)>>>>,
     <<<<Term("within", 1)>>, <<Term("type", <<4>>)>>>>,
     <<<<Term("any", <<1>>)>>, <<Term("port", 0)>>>>}

\* Bounds on the state of each scenario.
Within ==
    CASE scenario = "launcher" ->
            /\ ~window.open
            /\ locale = "en"
            /\ file.pref = 1 /\ file.font = DefaultFont /\ ~file.first /\ report = "none"
            /\ Cardinality((store.profiles \cup allRows) \ Stock) <= 1
      [] scenario = "settings" ->
            /\ store.profiles = {} /\ ~file.first
            /\ query = <<>>
      [] scenario = "both" ->
            /\ file.pref = 1 /\ file.font = DefaultFont
            /\ window.open => window.fields.font = DefaultFont
            /\ store.profiles = Stock /\ allRows = Stock
            /\ Len(query) <= 1

MCInit ==
    /\ scenario \in {"launcher", "settings", "both"}
    /\ WindowInit
    /\ Within

MCNext ==
    /\ WindowNext
    /\ UNCHANGED scenario
    /\ Within'

MCSpec == MCInit /\ [][MCNext]_mcVars
=============================================================================
