------------------------------- MODULE MCDasdIpl -------------------------------
(* Instances of DasdIpl for TLC: IPL2 at word 12, continued at 18 or 24.    *)
EXTENDS DasdIpl, TLC

Data(x) == [kind |-> "data", is |-> x]
Magic == [kind |-> "S390EP"]
Psw == [kind |-> "psw", addr |-> 20, short |-> TRUE, ea |-> FALSE, ba |-> FALSE]
Ipl1 == <<Psw, CCW("READ", 12, TRUE), CCW("TIC", 12, FALSE)>>

(* SEEK, SEARCH for r and READ to cda, for a program at base; and the TIC   *)
(* to where it goes on.                                                     *)
Piece(base, r, read, cda, chain) ==
  <<CCW("SEEK", 0, TRUE), [CCW("SEARCH", 0, TRUE) EXCEPT !.rec = r],
    CCW("TIC", base + 1, FALSE), CCW(read, cda, chain)>>
More(base, r, read, cda, to) ==
  Append(Piece(base, r, read, cda, TRUE), CCW("TIC", to, FALSE))

Sound(ipl2, r3, r4, r5) ==
  [sound |-> TRUE, records |-> <<Ipl1, ipl2, r3, r4, r5>>]
Unsound(ipl1, ipl2, r3) ==
  [sound |-> FALSE, records |-> <<ipl1, ipl2, r3, <<Data(4)>>, <<>> >>]

Last(base, cda) == Piece(base, 4, "READ", cda, FALSE)
System == {<<Data(1)>>, <<Data(1), Magic>>}
To == {SubchannelId, IoNewPsw, 28, 29}

MCDisks ==
  (* all in one chain: one record, two records one after the other          *)
  {Sound(Piece(12, 3, read, cda, FALSE), d, <<>>, <<>>) :
     read \in {"READ", "READ_MT"}, cda \in To, d \in System}
  \cup {Sound(Piece(12, 3, "READ", 20, TRUE) \o <<CCW("READ", cda, FALSE)>>,
              <<Data(3)>>, d, <<>>) : cda \in To, d \in System}
  (* the rest of the program is read: once, twice, over itself              *)
  \cup {Sound(More(12, 3, read, 18, 18), Last(18, cda), d, <<>>) :
          read \in {"READ", "READ_MT"}, cda \in To, d \in System}
  \cup {Sound(More(12, 3, "READ", 18, 18), More(18, 5, "READ_MT", 12, 12), d,
              Last(12, cda)) : cda \in To, d \in System}
  \cup {Sound(More(12, 3, "READ", IoNewPsw, 18)
                \o <<CCW("NOOP", 0, FALSE)>> \o Last(18, cda),
              <<Data(10)>>, d, <<>>) : cda \in To, d \in System}
  (* no IPL1, no IPL2, a program that ends in the middle of nowhere, and a  *)
  (* jump the search for the cut does not follow                            *)
  \cup {Unsound(<<Psw, CCW("NOOP", 0, TRUE), CCW("NOOP", 0, TRUE)>>, <<>>, <<>>),
        Unsound(Ipl1, <<>>, <<>>),
        Unsound(<<Psw, CCW("READ", 12, TRUE), CCW("TIC", 0, FALSE)>>,
                Last(12, 28), <<>>),
        Unsound(Ipl1, <<CCW("SEEK", 0, TRUE)>>, <<>>),
        Unsound(Ipl1, <<CCW("SEEK", 0, TRUE), CCW("TIC", 15, FALSE), Data(0)>>
                        \o More(15, 3, "READ", 22, 22), Last(22, 28))}
===============================================================================
