-------------------------- MODULE MCKmsActivation --------------------------
(* Instance of KmsActivation: a database of three CSVLKs, three builds and   *)
(* four products, and files of it that parse must refuse or that make it     *)
(* panic; files of one CSVLK for the edges of the key range and of the time  *)
(* range; command lines with every option, alone, repeated, without its      *)
(* value and as a value.  A day has 10 seconds, an i32 21000 values below    *)
(* its sign, an i64 250000 and a usize 65536.                                *)
EXTENDS KmsActivation

MCDb ==
  [csvlk |-> << [epid |-> <<5, 6>>, release |-> 142440, group |-> 152,
                 min_key |-> 1000, max_key |-> 1003, min_active |-> 0],
                [epid |-> <<1, 2, 3, 4, 5>>, release |-> 148050, group |-> 206,
                 min_key |-> 0, max_key |-> 2, min_active |-> 60],
                [epid |-> <<7, 60, 2, 3>>, release |-> 178060, group |-> 96,
                 min_key |-> 5, max_key |-> 6, min_active |-> 0] >>,
   apps |-> << [guid |-> 11], [guid |-> 12] >>,
   kms |-> << [guid |-> 21, epid_index |-> 1], [guid |-> 22, epid_index |-> 0],
              [guid |-> 23, epid_index |-> 2] >>,
   skus |-> << [guid |-> 31, app_index |-> 0, kms_index |-> 1,
                protocol_version |-> 6, n_count_policy |-> 25],
               [guid |-> 32, app_index |-> 1, kms_index |-> 0,
                protocol_version |-> 4, n_count_policy |-> 5],
               [guid |-> 33, app_index |-> 1, kms_index |-> 2,
                protocol_version |-> 5, n_count_policy |-> 0],
               [guid |-> 34, app_index |-> 2, kms_index |-> 1,
                protocol_version |-> 0, n_count_policy |-> 255] >>,
   \* newest first, as they are in the embedded file; release dates are not
   builds |-> << [number |-> 14393, platform |-> 3612, release |-> 170150],
                 [number |-> 7601, platform |-> 55041, release |-> 113690],
                 [number |-> 6002, platform |-> 55041, release |-> 143620] >>]

\* the tables one behind the other: 72 + 3, 2, 3, 4 and 3 rows of 32 bytes
MCTables ==
  << [offset |-> 168, count |-> 2], [offset |-> 232, count |-> 3],
     [offset |-> 328, count |-> 4], [offset |-> 456, count |-> 3] >>

MCFile == [size |-> 552, magic |-> TRUE, csvlk_count |-> 3, tables |-> MCTables, db |-> MCDb]

MCCut == {[MCFile EXCEPT !.size = n] : n \in {15, 40, 100, 167, 200, 551}}

\* the largest first row that is past the end, and rows whose end wraps
MCWrapped == {[MCFile EXCEPT !.tables[i].offset = o] : i \in {1, 4}, o \in {65503, 65504, 65535}}

\* the end of a short table that reaches into the next, a count that a vector may
\* have, the last one it can have, and two that it cannot
MCCounts == {[MCFile EXCEPT !.tables[3].count = n] : n \in {7, 8, 11, 1023, 1024, -1}}

\* a file of one CSVLK and no products
MCRow == [epid |-> <<5>>, release |-> 142440, group |-> 152, min_key |-> 7, max_key |-> 9,
          min_active |-> 0]
MCBuild(release) == << [number |-> 14393, platform |-> 3612, release |-> release] >>

MCSmall(row, builds) ==
  [size |-> 552, magic |-> TRUE, csvlk_count |-> 1,
   tables |-> [i \in 1..4 |-> [offset |-> 136, count |-> IF i = 4 THEN Len(builds) ELSE 0]],
   db |-> [csvlk |-> <<row>>, apps |-> <<>>, kms |-> <<>>, skus |-> <<>>, builds |-> builds]]

\* key ranges that go round or are empty, and a database of no builds
MCKeys == {MCSmall([MCRow EXCEPT !.min_key = 9, !.max_key = k], MCBuild(1)) : k \in {7, 9}}
            \cup {MCSmall(MCRow, <<>>)}

\* released when the clock shows, after it, too late for a day to be an i32, before
\* 1970, and more than an i64 ago
MCReleases ==
  {MCSmall([MCRow EXCEPT !.release = t], MCBuild(0)) : t \in {178115, 178116, 200889, 240000}}
    \cup {MCSmall([MCRow EXCEPT !.release = t], MCBuild(t + 12)) : t \in {-37, -150000}}

MCFiles == {MCFile, [MCFile EXCEPT !.magic = FALSE]} \cup MCCut \cup MCWrapped \cup MCCounts
             \cup MCKeys \cup MCReleases

MCClocks == {-1, 0, 178116, 200889}

MCNumber(t) ==
  CASE t = "0" -> 0 [] t = "1" -> 1 [] t = "2" -> 2 [] t = "3" -> 3 [] t = "4" -> 4
    [] t = "9" -> 9 [] OTHER -> NotANumber

MCChars(t) ==
  CASE t = "WORKSTATION" -> <<9, 60>> [] t = "pc" -> <<1>> [] t = "longer" -> <<1, 2, 3, 50>>
    [] OTHER -> <<2, 4>>

MCNoOption(t) == t \in {"a", "b", "0", "1", "2", "3", "4", "9", "pc", "longer"}

MCCommandLines ==
  { <<>>, <<"-l", "2">>, <<"-l", "0", "-4">>, <<"-l", "9">>, <<"-l", "x">>, <<"-l">>,
    <<"-w", "-4", "-l", "3">>, <<"a", "-n", "2", "-5">>, <<"-n", "0">>,
    <<"-n", "x", "a", "b">>, <<"-6", "-4", "-l", "4">>, <<"-w", "longer", "-t", "x">>,
    <<"-v", "-h">>, <<"-x", "a">>, <<"-l", "1", "-l", "3", "-w", "-w", "b">>,
    <<"-t", "2", "-w", "pc", "-n">>, <<"-l", "4">> }

MCMac(bytes) == << Len(bytes) % Byte, 5 >>
=============================================================================
