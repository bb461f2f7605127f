----------------------------- MODULE MCFileSystem -----------------------------
(* FileSystem with two volumes of different geometry: on drive 0 clusters of   *)
(* two sectors and a full root directory, on drive 1 a directory over two      *)
(* clusters that do not follow one another.                                    *)
EXTENDS FileSystem

End == [filename |-> <<NUL>>]
Item(name, ext, dir, c, size, id) ==
    [filename |-> name, ext |-> ext, dir |-> dir, cluster |-> c, size |-> size, id |-> id]
None == <<BLANK>>
A    == <<"A", BLANK>>
AB   == <<"A", "B">>
Dir  == <<"D", BLANK>>
X    == <<"C">>
Dot  == <<".", BLANK>>
Dots == <<".", ".">>

\* A sector as it looks when it is read as something it is not.
Plain == [boot  |-> NotABoot,
          items |-> [i \in 0..1 |-> End],
          fat   |-> [i \in 0..7 |-> 0],
          data  |-> "other"]
Items(a, b) == [Plain EXCEPT !.items = (0 :> a @@ 1 :> b), !.fat[2] = 3, !.fat[4] = 2]
Data(id)    == [Plain EXCEPT !.data = id, !.fat[2] = 4,
                             !.items[0] = Item(AB, None, FALSE, 2, 1, "other")]
Boot(reserved, copies, fat, root, spc) ==
    [Plain EXCEPT !.boot = [reserved_sectors |-> reserved, fat_copies |-> copies,
                            fat_sectors |-> fat, root_dir_entries |-> root,
                            sectors_per_cluster |-> spc]]
Fat(entries) == [Plain EXCEPT !.fat = entries @@ (0 :> 65528 @@ 1 :> 65535)
                                        @@ [i \in 0..7 |-> 0]]

Volume0 == [s \in 0..8 |->
  CASE s = 0 -> Boot(1, 1, 1, 2, 2)
    [] s = 1 -> Fat(2 :> 65535 @@ 3 :> 65535)
    [] s = 2 -> Items(Item(A, None, FALSE, 3, 1, "a"), Item(Dir, None, TRUE, 2, 0, "d"))
    [] s = 3 -> Items(Item(Dot, None, TRUE, 2, 0, "d"), Item(Dots, None, TRUE, 0, 0, "root"))
    [] s = 5 -> Data("a")
    [] OTHER -> Plain]

Volume1 == [s \in 0..8 |->
  CASE s = 0 -> Boot(1, 2, 1, 3, 1)
    [] s \in {1, 2} -> Fat(2 :> 4 @@ 3 :> 65535 @@ 4 :> 65535 @@ 5 :> 65535)
    [] s = 3 -> Items(Item(<<DELETED, "B">>, X, FALSE, 5, 1, "old"),
                      Item(Dir, None, TRUE, 2, 0, "d"))
    [] s = 4 -> Items(Item(AB, X, FALSE, 3, 1, "ab.c"), End)
    [] s = 5 -> Items(Item(Dot, None, TRUE, 2, 0, "d"), Item(Dots, None, TRUE, 0, 0, "root"))
    [] s = 6 -> Data("ab.c")
    [] s = 7 -> Items(Item(AB, X, FALSE, 5, 1, "d/ab.c"), End)
    [] s = 8 -> Data("d/ab.c")]

MCDisk == 0 :> Volume0 @@ 1 :> Volume1

\* What the volumes stand for.
Here == << <<".">>, "d" >>
Up   == << <<".", ".">>, "root" >>
Sub  == << <<"D">>, "d" >>
ABC  == <<"A", "B", ".", "C">>
MCTree ==
  0 :> [root |-> << << <<"A">>, "a" >>, Sub >>,
        d    |-> <<Here, Up>>] @@
  1 :> [root |-> <<Sub, <<ABC, "ab.c">> >>,
        d    |-> <<Here, Up, <<ABC, "d/ab.c">> >>]
MCDirectories == 0 :> {2} @@ 1 :> {2, 4}

\* 0:/a  1:/aB.c  1:/D/ab.c  1:/d/../ab.c  1:/d//ab.c  0:/d/  1:/  1:/ab.cc  2:/a  a
MCTexts == {
  <<"0", ":", "/", "a">>,
  <<"1", ":", "/", "a", "B", ".", "c">>,
  <<"1", ":", "/", "D", "/", "a", "b", ".", "c">>,
  <<"1", ":", "/", "d", "/", ".", ".", "/", "a", "b", ".", "c">>,
  <<"1", ":", "/", "d", "/", "/", "a", "b", ".", "c">>,
  <<"0", ":", "/", "d", "/">>,
  <<"1", ":", "/">>,
  <<"1", ":", "/", "a", "b", ".", "c", "c">>,
  <<"2", ":", "/", "a">>,
  <<"a">> }

TwoDrives == {0, 1}
MCModes == {"r", "w", "x"}
=============================================================================
