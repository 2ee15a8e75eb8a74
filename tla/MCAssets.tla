------------------------------- MODULE MCAssets -------------------------------
(***************************************************************************)
(* Two archives for AssetBatch: a song in both, kits of equal and of       *)
(* different contents under names with the same first eight characters,    *)
(* menus that name a kit, none, or one twice; a world without a driver.    *)
(***************************************************************************)
EXTENDS AssetBatch

Name(dir, type, stem, eight) == [dir |-> dir, type |-> type, stem |-> stem, eight |-> eight]

\* Kits 11 and 12 share their first eight characters.
MCNames ==
    <<Name("DMV1", "driver", 0, 0), Name("DMV1", "mwk", 1, 1), Name("DMV1", "mwk", 12, 1),
      Name("DMV1", "mwm", 1, 1), Name("DMV1", "mwm", 2, 2),
      Name("DMVFT", "driver", 0, 0), Name("DMVFT", "mwk", 1, 1), Name("DMVFT", "mwk", 2, 2),
      Name("DMVFT", "mwm", 1, 1)>>

Member(under, type, name, data) == [under |-> under, type |-> type, name |-> name, data |-> data]
Song(id, edit, kit) == [id |-> id, edit |-> edit, kit |-> kit]
File(id) == Song(id, FALSE, 0)
Archive(stem, members) == [stem |-> stem, members |-> members]
Menu(song, kit) == [song |-> song, kit |-> kit]

MCWorlds ==
    {<<Archive("DMV1", <<Member(<<>>, "driver", 0, File("driver1")),
                         Member(<<>>, "mwm", 1, Song("a", edit, 1)),
                         Member(<<"DMV1">>, "menu", 0, <<Menu(1, 2), Menu(1, 1)>>),
                         Member(<<>>, "mwk", kit, File("kit1"))>>),
       Archive("DMVFT", <<Member(<<"DMV1">>, "menu", 0, <<Menu(1, listed)>>),
                          Member(<<"DMV1", "SUB">>, "mwm", 1, Song("b", FALSE, 2)),
                          Member(<<"DMV1">>, "mwm", 2, Song("c", edit, named)),
                          Member(<<>>, "mwk", 1, File(other)),
                          Member(<<>>, "mwk", 2, File("kit2"))>>)>> :
        edit \in BOOLEAN, kit \in {1, 12}, listed \in {NoKit, 1, 2}, named \in {NoKit, 1, 2},
        other \in {"kit1", "kit3"}}
    \cup {<<Archive("DMV1", <<Member(<<>>, "mwm", 1, Song("a", FALSE, 1))>>)>>}
=============================================================================
