----------------------------- MODULE MCWebsite -----------------------------
(* A small instance of Website and what it is composed of: three ids, two  *)
(* in one frame, and lists of them that end within a frame, with it and    *)
(* behind it; readers who type up to two of seven words, three of four of  *)
(* them, and a few longer texts with operators; texts of links with up to  *)
(* five tokens, each labelled in every way; forms over a root with two     *)
(* categories that have one below them each.                               *)
EXTENDS Website

MCWordLength ==
    "in" :> 2 @@ "the" :> 3 @@ "arts" :> 4 @@ "uk" :> 2 @@ "islam" :> 5 @@ "a.uk" :> 4
      @@ "doe" :> 3 @@ "x" :> 1 @@ "-" :> 1 @@ "site:a.uk" :> 9 @@ "site:" :> 5 @@ "in:arts" :> 7
      @@ "country:zz" :> 10 @@ "name:doe" :> 8

Tokens == DOMAIN MCWordLength
Words == {"in", "the", "arts", "uk", "islam", "a.uk", "doe"}

MCQueries ==
    [1..1 -> Words \cup {"x"}] \cup [1..2 -> Words] \cup [1..3 -> {"in", "arts", "uk", "doe"}]
      \cup {<<"in", "the", "arts", "doe">>, <<"doe", "arts", "-", "a.uk">>, <<"uk", "arts", "uk">>,
            <<"arts", "doe", "islam", "uk">>, <<"doe", "arts", "arts", "doe">>, <<"uk", "in", "arts">>,
            <<"site:a.uk", "a.uk", "doe">>, <<"site:a.uk", "site:a.uk">>, <<"site:", "doe">>,
            <<"in:arts", "in", "arts">>, <<"doe", "in:arts", "arts">>, <<"a.uk", "uk", "a.uk">>,
            <<"site:a.uk", "a.uk", "arts", "doe">>, <<"country:zz", "doe">>, <<"name:doe", "arts">>}

MCOperator ==
    "site:a.uk" :> [kind |-> "site", value |-> <<"a.uk">>]
      @@ "site:" :> [kind |-> "site", value |-> None]
      @@ "in:arts" :> [kind |-> "category", value |-> <<"arts">>]
      @@ "country:zz" :> [kind |-> "country", value |-> <<"zz">>]
      @@ "name:doe" :> [kind |-> "name", value |-> <<"doe", "arts", "doe">>]

MCLinkText ==
    {[title |-> t, description |-> d] :
       t \in {<<"St">>, <<"Irish">>}, d \in {<<"Kim", "##o">>, <<"Koran", "Paris">>}}
      \cup {[title |-> <<"Kim">>, description |-> <<"Paris", ",", "TX">>],
            [title |-> <<"&">>, description |-> <<"Jesus", "Kim">>],
            [title |-> <<"Jesus">>, description |-> <<"-", "Kim">>]}

MCLetters ==
    "St" :> 2 @@ "Irish" :> 5 @@ "Kim" :> 3 @@ "##o" :> 1 @@ "Koran" :> 5 @@ "Paris" :> 5
      @@ "TX" :> 2 @@ "Jesus" :> 5 @@ "." :> 0 @@ "," :> 0 @@ "-" :> 0 @@ "&" :> 0
MCBytes == [t \in DOMAIN MCLetters |-> IF t = "##o" THEN 2 ELSE IF MCLetters[t] = 0 THEN 1 ELSE MCLetters[t]]
MCLower ==
    [t \in DOMAIN MCLetters |->
       CASE t = "St" -> "st" [] t = "Irish" -> "irish" [] t = "Kim" -> "kim" [] t = "Koran" -> "koran"
         [] t = "Paris" -> "paris" [] t = "TX" -> "tx" [] t = "Jesus" -> "jesus" [] OTHER -> t]
MCGazetteer ==
    <<"paris">> :> ("fr" :> 9 @@ "us" :> 3) @@ <<"tx">> :> ("us" :> 2) @@ <<"kim">> :> ("us" :> 8)
MCStateOf == "TX" :> "us"
MCDemonym == <<"Irish">> :> "ie"
MCLanguageBefore == {<<"kim">>}
MCLanguageAfter == {<<"koran">>}
MCTerm == <<"koran">> :> 0 @@ <<"jesus">> :> 2
MCFigure == {<<"jesus">>}
MCStop == {<<"St">>}
MCPlain == {<<"tx">>}
MCCodeOrder == <<"fr", "gb", "ie", "us", "zz">>
MCBetween == <<".">>
MCNerLabel ==
    {[kind |-> "O", inside |-> FALSE], [kind |-> "PER", inside |-> FALSE],
     [kind |-> "PER", inside |-> TRUE], [kind |-> "ORG", inside |-> FALSE],
     [kind |-> "LOC", inside |-> FALSE]}

(* What a name in one of these texts may be.                               *)
Phrases ==
    UNION {LET text == l.title \o MCBetween \o l.description IN
           {SubSeq(text, i, j) : i, j \in DOMAIN text} : l \in MCLinkText} \ {<<>>}
Spelled(s) ==
    FoldLeft(LAMBDA n, t : n + MCBytes[t] + (IF t \in {".", ",", "-", "##o"} THEN 0 ELSE 1), 0, s)
      - (IF s[1] \in {".", ",", "-", "##o"} THEN 0 ELSE 1)

MCAssigned == {<<"gb">>, <<"pk">>}
MCText ==
    {<<>>, <<"gb">>, <<"pk">>, <<"zz">>, <<".gb">>} \cup UNION {[1..n -> Tokens] : n \in 1..3}
      \cup MCQueries \cup Phrases
MCNoText == <<>>
MCSample == {<<>>, <<"gb">>, <<"arts">>}
MCLength ==
    [s \in MCText |->
       IF s = <<>> THEN 0 ELSE IF s \in Phrases THEN Spelled(s)
       ELSE IF s \in {<<"gb">>, <<"pk">>, <<"zz">>} THEN 2 ELSE IF s = <<".gb">> THEN 3
       ELSE FoldLeft(LAMBDA n, w : n + MCWordLength[w] + 1, 0, s) - 1]

MCBare == [s \in MCText |-> IF s = <<".gb">> THEN <<"gb">> ELSE s]

MCCountryOf == <<"uk">> :> <<"gb">> @@ <<"the", "uk">> :> <<"gb">> @@ <<"uk", "arts">> :> <<"pk">>
MCReligionOf == "islam" :> <<"islam">>
MCReligions == << <<"faith">>, <<"islam">> >>

MCNameIndex ==
    {[categories |-> {<<"arts">>}, people |-> {<<"doe", "arts">>}],
     [categories |-> {<<"arts", "doe">>, <<"doe">>}, people |-> {<<"arts">>, <<"doe", "arts">>, <<"gb">>}]}

MCLookup == {<<"x">>, <<"arts">>, <<"in", "uk">>}

MCToken ==
    {None} \cup [signed : BOOLEAN, scopes : {{}, {"mcp"}}, role : {None, "user", "admin"}]

MCLinkRow == {[id |-> 1, cat |-> 2, status |-> "pending"], [id |-> 3, cat |-> 1, status |-> "rejected"]}
MCCategoryRow == {[id |-> 2, parent |-> 1]}
MCListsOfIds == {<<>>, <<1>>, <<3, 1>>, <<1, 2, 3>>, <<2, 2, 1, 3, 1>>}

MCQuery ==
    [op |-> "queryLinks", category |-> 0, domain |-> <<>>, country |-> <<>>, via |-> {0, 1, 2},
     hostedOnly |-> FALSE, allWords |-> TRUE, groupBy |-> 0, status |-> "approved",
     groupLimit |-> 10, limit |-> 50, religions |-> {}, subdomainOnly |-> FALSE,
     words |-> <<>>, entity |-> <<>>, after |-> 0]

MCLinkQuery ==
    {[MCQuery EXCEPT !.domain = d, !.country = c, !.words = w, !.entity = e, !.category = k] :
       d \in {<<>>, <<".gb">>, <<"arts">>, <<"arts", "uk">>}, c \in {<<>>, <<"gb">>}, w \in MCSample,
       e \in MCSample, k \in {0, 2}}
      \cup
    {[MCQuery EXCEPT !.hostedOnly = h, !.allWords = w, !.subdomainOnly = s, !.status = t,
                     !.groupBy = g[1], !.limit = g[2], !.religions = r[1], !.via = r[2], !.after = a] :
       h \in BOOLEAN, w \in BOOLEAN, s \in BOOLEAN, t \in {"pending", "any"}, a \in {0, 3},
       g \in {<<0, 50>>, <<8, 0>>}, r \in {<<{}, {2}>>, <<{0, 10}, {0, 1, 2}>>}}

MCApiQuery ==
    {[query |-> [MCQuery EXCEPT !.groupBy = 4, !.limit = n, !.country = c, !.entity = e], path |-> p] :
       n \in {0, 51}, c \in {<<"gb">>, <<"arts">>, <<"zz">>}, e \in {<<>>, <<"doe", "arts", "doe">>},
       p \in {<<>>, <<"arts">>}}

MCRootList == <<1>>
MCBelow == 1 :> <<2, 3>> @@ 2 :> <<4>> @@ 3 :> <<5>> @@ 4 :> <<>> @@ 5 :> <<>>
MCTypedUrl == {<<>>, <<"a">>, <<"a", "a", " ", "a">>, <<" ", "b">>}
MCHttpUrl == {<<"a">>, <<"a", "a">>}
MCTypedTitle == {<<>>, <<"a", " ">>, <<"a", " ", "a">>}
MCTypedDescription == {<<"a">>, <<" ", "a", "a">>, <<"a", "a", "a", "a">>, <<"a", "a">>}
MCTypedName == {<<>>, <<"a">>, <<"a", "b">>, <<"a", "b", "c">>}
MCLabel == [k \in 1..5 |-> <<"#", ToString(k)>>]

=============================================================================
