------------------------------ MODULE MCAlgorithms ------------------------------
(***************************************************************************)
(* Small data for the three computations of a job.                         *)
(***************************************************************************)
EXTENDS Algorithms, TLC

-----------------------------------------------------------------------------
(* Searches: one to three hypotheses at Exa and GitHub with one to three   *)
(* variants, every small envelope in both modes.  The ceilings of the code *)
(* (36 queries, 64 requests, 50 profiles, five results a query) are scaled *)
(* down so that each of them is the binding one in some input.             *)

Ceilings == [names |-> 3, queries |-> 5, requests |-> 7, profiles |-> 7, stagnation |-> 2]
QuickCeilings == [names |-> 2, queries |-> 3, requests |-> 3, profiles |-> 4, stagnation |-> 2]

Exa(name, variants) ==
    [provider |-> "exa", name |-> name, variants |-> variants, located |-> variants > 2]
Github(name) == [provider |-> "github", name |-> name, variants |-> 1, located |-> FALSE]

Waves ==
    {<<Exa(1, a), Github(1)>> : a \in 1..3}
      \cup {<<Exa(1, a), Github(1), Exa(2, b), Github(2)>> : a \in 1..3, b \in 1..3}
      \cup {<<Exa(1, a), Exa(2, b), Exa(3, c)>> : a \in 1..3, b \in 1..3, c \in 1..3}
      \cup {<<Github(1), Github(2)>>}

Envelopes ==
    [names : {3}, queries : {0, 3, 5}, requests : {2, 4, 7}, profiles : {1, 4, 9}, stagnation : {2}]

Searched == [mode : {"quick", "deep"}, configured : Envelopes, proposals : Waves]

OfSearched == CHOOSE asking \in Searched : TRUE

-----------------------------------------------------------------------------
(* Packets: three or four sources and two accounts of small sizes, ranks   *)
(* and citations; a fourth source lies behind the scan limit.              *)

Source(i) == [id : {i}, priority : {0, 1}, size : {2, 4}, usable : BOOLEAN]
Third == [id : {3}, priority : {0, 1}, size : {2, 4}, usable : {TRUE}]

Observed(o) == [observation |-> o, check |-> "gone"]
Checked(c) == [observation |-> 0, check |-> c]

First == [id : {1}, size : {2, 5}, usable : {TRUE},
          edges : {{}, {Observed(1)}, {Checked("found")}, {Checked("gone")},
                   {Observed(1), Checked("found"), Observed(3)}}]
Second == [id : {2}, size : {2}, usable : BOOLEAN,
           edges : {{}, {Observed(3)}, {Observed(1), Checked("found")}}]
Fourth == [id |-> 4, priority |-> 1, size |-> 2, usable |-> TRUE]

Packed ==
    {[sources |-> {a, b, c} \cup more, accounts |-> <<x, y>>,
      observationOf |-> [found |-> 2, gone |-> 0]] :
        a \in Source(1), b \in Source(2), c \in Third, more \in {{}, {Fourth}},
        x \in First, y \in Second}

OfPacked == CHOOSE sources \in Packed : TRUE

-----------------------------------------------------------------------------
(* Reports: scans of up to three accounts over two families of platforms   *)
(* and two bearers of a full name, a third who shares a surname, and       *)
(* accounts without a name; one profile at most comes back for each name,  *)
(* and it may be the same for two.                                         *)

Alice == <<"alice", "ash">>
Bob == <<"bob", "birch">>
Carol == <<"carol", "ash">>
Dan == <<"dan", "dale">>

Profile(platform, names, located) ==
    [platform : {platform}, name : names, exact : {TRUE}, check : {"profile"}, located : located]
Lead(platform) ==
    [platform : {platform}, name : {Alice, <<>>}, exact : BOOLEAN, check : {"lead"}, located : {FALSE}]

Account(platform) == Profile(platform, {Alice, Bob, Carol, <<>>}, {FALSE}) \cup Lead(platform)
Located(platform) == Profile(platform, {Alice, Bob}, BOOLEAN)

Scanned ==
    {<<>>}
      \cup {<<a>> : a \in Account("github")}
      \cup {<<a, b>> : a \in Located("instagram"), b \in Account("threads")}
      \cup {<<a, b, c>> : a \in Located("github"), b \in Account("instagram"), c \in Account("x")}
      \cup {<<a, b, c>> : a \in Profile("github", {<<>>}, {FALSE}),
                          b \in Profile("instagram", {Alice}, BOOLEAN),
                          c \in Profile("x", {Alice, Bob, Carol}, {FALSE})}

Seeded == {None, "github", "instagram"}

Indexed3 == [kind : {"index"}, own : {FALSE}, exact : {FALSE}, social : {FALSE},
             name : {"same", "other", "none"}, near : BOOLEAN]

FromApi == [kind : {"api"}, own : {TRUE}, exact : {TRUE}, social : BOOLEAN,
            name : {"same", "none"}, near : {FALSE}]
             \cup [kind : {"api"}, own : {FALSE}, exact : {FALSE}, social : BOOLEAN,
                   name : {"same", "none"}, near : {FALSE}]

Found == FromApi \cup {p \in Indexed3 : p.near \/ p.name # "same"}

-----------------------------------------------------------------------------
(* What the configuration gives the constants.  (TLC evaluates a           *)
(* definition once, but the right-hand side of a substitution each time.)  *)

SmallSearches == Searched
ASearch == OfSearched
Absolute == Ceilings
Quick == QuickCeilings
SmallPackets == Packed
APacket == OfPacked
SmallScans == Scanned
AnySeed == Seeded
AnyProfile == Found
SomeoneElse == Dan

================================================================================
