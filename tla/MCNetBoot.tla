------------------------------ MODULE MCNetBoot ------------------------------
(* A subchannel is [valid, net, devno].  Addresses in coarse words, in the *)
(* order of the real ones: 0, 0xB8, the console's (0x80, 0x130, 0x1b0),    *)
(* 0x2000 and 0x10000, 0x10008, 0x10408, 0x10480, then room for an initrd  *)
(* behind a kernel, and the loader.                                        *)
EXTENDS NetBoot, TLC

Word(f, n) == [kind |-> "data", of |-> f, n |-> n]
Data(f, size) == [n \in 1..size |-> Word(f, n)]
ShortPSW == Jump!PSW(2, TRUE, FALSE, TRUE)

File(words) == [words |-> words, text |-> "kernel", cfg |-> NoCfg]
Text(f, text, c) == [words |-> Data(f, 2), text |-> text, cfg |-> c]
Entry(k, r, a) == [NoCfg EXCEPT !.entry = [kernel |-> k, initrd |-> r, append |-> a]]
Line(f, a) == [file |-> f, at |-> a]

Kernel == [Data("vmlinux", 8) EXCEPT ![S390EP + 1] = [kind |-> "S390EP"]]
Files ==
  ("vmlinux" :> File(Kernel)) @@
  ("standalone" :> File([Data("standalone", 5) EXCEPT ![1] = ShortPSW])) @@
  ("odd" :> File(Data("odd", 6))) @@
  ("psw" :> File(<<ShortPSW>>)) @@
  ("tiny" :> File(Data("tiny", 1))) @@
  ("empty" :> File(<<>>)) @@
  ("initrd" :> File(Data("initrd", 3))) @@
  ("huge" :> File(Data("huge", 14))) @@
  ("ins" :> Text("ins", "ins",
     [NoCfg EXCEPT !.lines = <<Line("vmlinux", 0), Line("initrd", 9), Line("psw", 0)>>])) @@
  ("inspart" :> Text("inspart", "ins",
     [NoCfg EXCEPT !.lines = <<Line("vmlinux", 0), Line("initrd", 10)>>])) @@
  ("insbad" :> Text("insbad", "ins",
     [NoCfg EXCEPT !.lines = <<Line("vmlinux", 0), Line(NoName, 0)>>])) @@
  ("insfar" :> Text("insfar", "ins",
     [NoCfg EXCEPT !.lines = <<Line("psw", 0), Line("initrd", 13)>>])) @@
  ("insnone" :> Text("insnone", "ins", NoCfg)) @@
  ("cfg" :> Text("cfg", "pxelinux", Entry("odd", "initrd", TRUE))) @@
  ("nokernel" :> Text("nokernel", "pxelinux", NoCfg))

Pxelinux == {Entry("vmlinux", "initrd", TRUE), Entry("standalone", NoName, FALSE),
             Entry("odd", "initrd", FALSE), Entry("empty", "initrd", FALSE),
             Entry("vmlinux", "huge", FALSE), Entry("odd", NoName, TRUE)}

MCNames == (DOMAIN Files) \cup {NoName, "tiny/", "gone"}

Sub(v, n, d) == [valid |-> v, net |-> n, devno |-> d]
Channels == [s \in 0..3 |->
  CASE s = 1 -> <<Sub(FALSE, FALSE, 0), Sub(TRUE, FALSE, 5), Sub(TRUE, TRUE, 6),
                  Sub(TRUE, TRUE, 7)>>
    [] s = 3 -> <<Sub(TRUE, TRUE, 7)>>
    [] OTHER -> <<>>]

Net(devno, ssid, bootfile, pxelinux) ==
  [subchannels |-> Channels, devno |-> devno, ssid |-> ssid, bootfile |-> bootfile,
   directory |-> bootfile = "tiny/", files |-> Files, pxelinux |-> pxelinux]
MCNetworks ==
  {Net(-1, 0, f, Pxelinux) : f \in MCNames}
    \cup {Net(d, s, "vmlinux", {}) : d \in {5, 7}, s \in {1, 3}}
===============================================================================
