------------------------------ MODULE MCCatalogue ------------------------------
EXTENDS Catalogue, TLC

CONSTANTS m1, m2, o1, o2, u1, w1, w2, typed

MCWords == {"org", "deposits", "total", "balance", "average", "draft", "branch", "demo",
            "demo branch"}
MCSynonyms == {"spoken", "sample"}

Base == <<"org", "deposits">>
Renamed == <<"deposits", "total">>

Config(code, name, rank, effective) ==
  [code |-> code, name |-> name, rank |-> rank, effective |-> effective]
Fact(code, source, basis) == [code |-> code, source |-> source, basis |-> basis]
Org(code, name, rank) == [code |-> code, name |-> name, rank |-> rank, effective |-> 0]

\* A first load; one in which the metric was renamed, with a version that is not
\* yet in force and two value bases under one code, and the organisation has a row
\* without a name.
MCLakes ==
  << [configs |-> <<Config(m1, Base, 1, 0)>>,
      facts |-> <<Fact(m1, m1, <<"balance">>)>>,
      orgs |-> <<Org(o1, <<"branch">>, 1)>>],
     [configs |-> <<Config(m1, Base, 1, 0), Config(m1, Renamed, 2, 1),
                    Config(m1, <<"draft">>, 3, 2)>>,
      facts |-> <<Fact(m1, m1, <<"total">>), Fact(m1, m1, <<"average">>)>>,
      orgs |-> <<Org(o1, <<>>, 1), Org(o1, <<"branch">>, 1)>>] >>

MCPayloads ==
  {[code |-> c, name |-> <<"demo">>, manual |-> typed, enabled |-> TRUE,
    synonyms |-> {"spoken"}] : c \in {m1, m2, o1}}

\* A catalogue with a row of the lake and simulated ones.
MCInitialMetrics ==
  m1 :> Row(<<"deposits", "balance">>, Blank, TRUE) @@ m2 :> Row(<<"demo">>, typed, TRUE)
MCInitialOrgs ==
  o1 :> NoRow @@ o2 :> Row(<<"demo branch">>, Blank, TRUE)
MCInitialSynonyms ==
  {[code |-> m2, synonym |-> "sample", updated_at |-> 0, commit |-> 0]}

MCEntries == {Blank, typed}

MCInitialUsers == u1 :> o2

Interchangeable == Permutations(Workers)
===============================================================================
