-------------------------------- MODULE MCKcp --------------------------------
(***************************************************************************)
(* Sources for KcpArchive: pages of four cells for each of the three       *)
(* tools, pages that agree, differ in one cell, in two runs or throughout; *)
(* blocks that overlap or overrun the page; a container with bytes left.   *)
(***************************************************************************)
EXTENDS KcpArchive

Page(a, b, c, d) == [n \in 0..3 |-> <<a, b, c, d>>[n + 1]]
Patches == {<<>>, <<Block(1, <<5>>)>>, <<Block(2, <<6, 7>>)>>}

MCSources ==
    [complete |->
       {[kind |-> "pages", pages |-> p] :
          p \in {<<Page(1, 2, 3, 4)>>, <<Page(1, 0, 3, 4), Page(1, 2, 3, 5)>>,
                 <<Page(1, 2, 3, 4), Page(5, 2, 6, 4), Page(1, 2, 0, 0)>>}},
     specialized |->
       {[kind |-> "QCPX", engine |-> <<1>>, common |-> c, payloadAt |-> 2,
         pages |-> <<[payload |-> <<3, 4>>, patches |-> p], [payload |-> <<8>>, patches |-> q]>>] :
          c \in {<<2>>, <<2, 9>>}, p \in Patches, q \in Patches}
       \cup {[kind |-> "SCPX", template |-> Page(1, 2, 3, 4),
              pages |-> <<[payload |-> <<3, 4>>, patches |-> p], [payload |-> <<>>, patches |-> q]>>] :
          p \in Patches, q \in Patches},
     bundle |->
       {[kind |-> "KCPX", template |-> Page(1, 2, 0, 4), trailing |-> t, pages |-> p] :
          t \in BOOLEAN,
          p \in {<<>>, <<<<Block(0, <<9>>), Block(0, <<8, 7>>)>>, <<>>>>,
                 <<<<>>, <<Block(2, <<9, 9>>)>>, <<Block(1, <<3>>)>>>>,
                 <<<<Block(3, <<1, 2>>)>>>>}}]

MCPackedSizes == [complete |-> {2, 7, 11}, specialized |-> {2, 7, 11}, bundle |-> {2, 11, 41}]
=============================================================================
