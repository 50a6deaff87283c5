----------------------------- MODULE MCResults ------------------------------
(***************************************************************************)
(* What the library computes: a program hashes messages with one context,  *)
(* or asks one question of Queries.  Blocks of 4 bytes, a length field of  *)
(* 2, words of 6 bits: the lower word wraps every 8 bytes.                 *)
(***************************************************************************)
EXTENDS Md5, Queries

MCB == 4
MCL == 2
MCW == 6
MCReadSize == 8
MCMaxChunk == 13
MCMaxLen == 25
MCMessages == 2

MCIntBits == 8
MCUnit == 10

Texts(chars, n) == UNION {[1 .. k -> chars] : k \in 0 .. n}

Addresses == {<<"1", ".", "1">>, <<"1", ".", "1", "2">>, <<"1", ".", "2">>}
Interfaces == [inet : BOOLEAN, addr : Addresses]

Logged == [user : {"reboot", "shutdown", "root"}, type : {"BOOT_TIME", "RUN_LVL", "USER_PROCESS"}]

InTime(kinds) ==
  [i \in DOMAIN kinds |-> [user |-> kinds[i].user, type |-> kinds[i].type, time |-> 10 * i]]

MCAsked ==
  [strim |-> Texts({"x", " ", "\n"}, 5),
   component |-> Texts({"a", "/"}, 8),
   items |-> [line : {l \in Texts({"x", "y", " ", ":", "\n"}, 5) : \A i \in 1 .. Len(l) - 1 : l[i] # "\n"},
              key : {":", " "}],
   base64 |-> [str : Texts({1, 65, 127, -1, -128}, 4), past : {0, 77, -1}],
   field |-> [line : {l \in Texts({"x", " ", "\t", "\n"}, 6) : \A i \in 1 .. Len(l) - 1 : l[i] # "\n"},
              fieldnum : {1, 2, 4}],
   stat |-> [comm : Texts({"a", " ", "(", ")"}, 3), state : DOMAIN States \cup {"I"}, flags : {"0", PF_KTHREAD}],
   cmdline |-> [bytes : Texts({"a", NUL, "\n"}, 6) \ {<<>>}, size : 2 .. 9],
   cputime |-> Texts({-1, 0, 9, 10, 15, 995}, 3),
   times |-> {InTime(k) : k \in Texts(Logged, 3)},
   release |-> [name : {"ubuntu", "centos", "debian"}, number : {6, 7, 8, 18},
                layout : {"long", "short", "issue"}],
   exec |-> [mode : {NoMode, S_IFREG, S_IFREG + 64, S_IFREG + 73, S_IFDIR + 73}, size : {0, 51, 52, 99},
             head : {"ELF", "bash", "sh", "python", "other"}, etype : ElfTypes \cup {"NONE"}],
   walk |-> [interfaces : Texts(Interfaces, 2), n : 0 .. 2, last : {-1, 1}],
   users |-> [log : {InTime(k) : k \in Texts(Logged, 3)}, stop : 1 .. 2],
   ids |-> [id : Texts({"x"}, 3) \ {<<>>}, size : 2 .. 6],
   local |-> [addr : Addresses, interfaces : Texts(Interfaces, 2)]]

MCInit == Init /\ QueryInit

MCNext ==
  \/ call.fn = "none" /\ Next /\ UNCHANGED call
  \/ msg = 0 /\ QueryNext /\ UNCHANGED vars

MCSpec == MCInit /\ [][MCNext]_<<vars, call>>
=============================================================================
