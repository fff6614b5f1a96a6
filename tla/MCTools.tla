------------------------------ MODULE MCTools -------------------------------
(* Three passages, each of one of seven shapes, in every combination, and a fourth: two   *)
(* corpora, works with two files, a work that two corpora have, and div_paths that nest,  *)
(* come back and differ only in a blank segment.  With the second list of doc ids one of  *)
(* them is not in the table, and the ids are not in scan order.  The tools that put hits  *)
(* together are tried where the passages are of three works in three canons and periods.  *)
(* Two stores have longer texts to be read, with headings that are the div_path and with  *)
(* headings that are not, and stops at the ends and in the middle.                        *)
EXTENDS Tools

Shape(corpus, canon, work, file, path, cjk, rank) ==
    [corpus |-> corpus, canon |-> canon, work |-> work, file |-> file, path |-> path,
     heading |-> path, cjk |-> cjk, rank |-> rank, lb |-> 0, text |-> <<FALSE, TRUE>>]

MCBlank == 0
MCShapes == << Shape(1, 1, 1, 1, <<>>, 1, 2), Shape(1, 1, 1, 1, <<1>>, 2, 2),
               Shape(1, 1, 1, 1, <<1, 2>>, 1, 2), Shape(1, 1, 1, 1, <<1, 0, 2>>, 2, 2),
               Shape(1, 1, 1, 2, <<2>>, 1, 2), Shape(1, 2, 2, 3, <<2>>, 1, 1),
               Shape(2, 2, 1, 4, <<1>>, 1, 3) >>

MCRow(doc, s) == [k \in DOMAIN MCShapes[s] \cup {"doc"} |-> IF k = "doc" THEN doc ELSE MCShapes[s][k]]
MCDocIds == { <<0, 1, 2, 3>>, <<2, None, 0, 1>> }
Store(d, a, b, c) == <<MCRow(d[1], a), MCRow(d[2], b), MCRow(d[3], c), MCRow(d[4], 3)>>

MCQueryStores == {Store(d, a, b, c) : d \in MCDocIds, a \in {1, 6}, b \in {6, 7}, c \in {1, 6, 7}}

\* Of each text its length and the places of its full stops.
Text(length, stops) == [k \in 1 .. length |-> k \in stops]
Longer(store, lbs, texts, heading) ==
    [i \in DOMAIN store |-> [store[i] EXCEPT !.lb = lbs[i], !.text = texts[i],
                                             !.heading = IF heading THEN @ ELSE <<9>>]]
MCReadStores ==
    { Longer(Store(<<0, 1, 2, 3>>, 1, 3, 2), <<0, 2, 1, 3>>,
             <<Text(7, {7}), Text(9, {4, 9}), Text(3, {}), Text(6, {2})>>, TRUE),
      Longer(Store(<<2, None, 0, 1>>, 5, 2, 6), <<0, 0, 0, 3>>,
             <<Text(12, {5, 6}), Text(1, {1}), Text(16, {3, 9}), Text(8, {8})>>, FALSE) }

MCParquets == {Store(d, a, b, c) : d \in MCDocIds, a, b, c \in DOMAIN MCShapes} \cup MCReadStores
MCAsked == {<<10, 1>>, <<3, 4>>, <<20, 0>>, <<8, 9>>}
=============================================================================
