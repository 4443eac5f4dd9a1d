------------------------------ MODULE Config -------------------------------
(***************************************************************************)
(* Loading the configuration file: sections are opened one after the       *)
(* other, the keywords of a section fill in the object that its header     *)
(* added, and a section is checked when the next header or the end of the  *)
(* file is met.  The first line that is wrong ends the load, and then, or  *)
(* when the program ends, proxy_free gives up everything that was loaded.  *)
(*                                                                         *)
(* A line is a keyword and an argument; what only its wording decides (a   *)
(* wrong number of arguments, an unknown keyword, a bad address) is Bad.   *)
(***************************************************************************)
EXTENDS Integers, Sequences, FiniteSets

CONSTANTS
  Name,           \* names that fit in MAX_NAME
  MAX_CERTSET, MAX_LISTENER, MAX_SVRPOOL, MAX_POLICY,
  MaxServer,      \* bound: server lines in one svrpool
  MaxRef,         \* bound: clones of one object
  Number,         \* the numbers that arguments spell
  Junk,           \* an argument that is no number
  MayNotAlloc     \* TRUE: an allocation may fail

ASSUME ConfigAssumption ==
  /\ {MAX_CERTSET, MAX_LISTENER, MAX_SVRPOOL, MAX_POLICY, MaxServer, MaxRef} \subseteq Nat
  /\ Number \subseteq Int /\ Junk \notin Number /\ MayNotAlloc \in BOOLEAN

NoName == "-"

VARIABLES
  section,    \* pctx.section; pctx.cfg is the last object of its list
  proxy,      \* nworker and nice of py->cfg, and whether nice was a number
  cert, ltn, sp, pl,   \* certlist, ltnlist, splist, pllist
  status,     \* "load", "ok", "error", "released"
  bad,        \* the line that ended the load, with its number of arguments
  freed       \* freed[k]: the objects of list k that proxy_free freed

objects == <<cert, ltn, sp, pl>>
cfgvars == <<section, proxy, objects, status, bad, freed>>

Last(s)     == s[Len(s)]
SetLast(s, o) == [s EXCEPT ![Len(s)] = o]
Named(s, n) == {i \in DOMAIN s : s[i].name = n}

\* The objects as calloc leaves them.  cert[] and pkcs12[] are a union: file says
\* which keyword wrote it.
NewCert   == [name |-> NoName, type |-> "X509", file |-> "", pkey |-> FALSE,
              refcnt |-> 0]
NewLtn    == [name |-> NoName, address |-> FALSE, ssl |-> FALSE, cert |-> 0,
              refcnt |-> 0]
NewSp     == [name |-> NoName, nserver |-> 0, refcnt |-> 0]
NewPolicy == [name |-> NoName, listener |-> 0, svrpool |-> 0]

-----------------------------------------------------------------------------
(* _cfg_check_section.                                                     *)

\* The union lets a PKCS12 file stand for the certificate.
CertDone(c) ==
  /\ c.name # NoName
  /\ \/ c.type = "X509" /\ c.file # "" /\ c.pkey
     \/ c.type = "PKCS12" /\ c.file = "pkcs12"

LtnDone(l) == l.name # NoName /\ l.address /\ (l.ssl => l.cert # 0)

SpDone(s) == s.name # NoName /\ s.nserver >= 1

PolicyDone(p) == p.name # NoName /\ p.listener # 0 /\ p.svrpool # 0

_cfg_check_section ==
  CASE section = "PROXY"    -> TRUE
    [] section = "CERTSET"  -> CertDone(Last(cert))
    [] section = "LISTENER" -> LtnDone(Last(ltn))
    [] section = "SVRPOOL"  -> SpDone(Last(sp))
    [] section = "POLICY"   -> PolicyDone(Last(pl))

-----------------------------------------------------------------------------
(* Each line is an action for the lines that are accepted.                 *)

In(s) == status = "load" /\ section = s

\* A header: the section before it is checked, and a list holds one object more
\* than its maximum at most.
Header ==
  /\ status = "load" /\ _cfg_check_section
  /\ \/ /\ section' = "PROXY"
        /\ UNCHANGED objects
     \/ /\ section' = "CERTSET"
        /\ Len(cert) <= MAX_CERTSET /\ cert' = Append(cert, NewCert)
        /\ UNCHANGED <<ltn, sp, pl>>
     \/ /\ section' = "LISTENER"
        /\ Len(ltn) <= MAX_LISTENER /\ ltn' = Append(ltn, NewLtn)
        /\ UNCHANGED <<cert, sp, pl>>
     \/ /\ section' = "SVRPOOL"
        /\ Len(sp) <= MAX_SVRPOOL /\ sp' = Append(sp, NewSp)
        /\ UNCHANGED <<cert, ltn, pl>>
     \/ /\ section' = "POLICY"
        /\ Len(pl) <= MAX_POLICY /\ pl' = Append(pl, NewPolicy)
        /\ UNCHANGED <<cert, ltn, sp>>
  /\ UNCHANGED <<proxy, status, bad, freed>>

\* _cfg_atoi: -1 stands for what is no number.
_cfg_atoi(a) == IF a = Junk THEN -1 ELSE a

\* The other keywords set nothing that is modelled.
_cfg_parse_proxy ==
  /\ In("PROXY")
  /\ \E a \in Number \union {Junk} :
       \/ /\ _cfg_atoi(a) \in 1..40
          /\ proxy' = [proxy EXCEPT !.nworker = _cfg_atoi(a)]
       \/ /\ _cfg_atoi(a) \in -20..19
          /\ proxy' = [proxy EXCEPT !.nice = _cfg_atoi(a), !.number = a # Junk]
  /\ UNCHANGED <<section, objects, status, bad, freed>>

\* The name of an object is set once, to one that no other of its list has.
CanName(s, n) == Last(s).name = NoName /\ Named(s, n) = {}

\* domain, crl, intca and ca set nothing that is modelled.
_cfg_parse_certset ==
  /\ In("CERTSET")
  /\ LET c == Last(cert)
     IN  \/ \E n \in Name : /\ CanName(cert, n)
                            /\ cert' = SetLast(cert, [c EXCEPT !.name = n])
         \/ /\ c.type # "PKCS12" /\ c.file = ""
            /\ cert' = SetLast(cert, [c EXCEPT !.file = "cert"])
         \/ /\ c.type # "PKCS12" /\ ~c.pkey
            /\ cert' = SetLast(cert, [c EXCEPT !.pkey = TRUE])
         \/ /\ c.type # "PKCS12" /\ c.file = "" /\ ~c.pkey
            /\ cert' = SetLast(cert, [c EXCEPT !.file = "pkcs12"])
         \/ UNCHANGED cert
  /\ UNCHANGED <<section, proxy, ltn, sp, pl, status, bad, freed>>

_cfg_parse_listener ==
  /\ In("LISTENER")
  /\ LET l == Last(ltn)
     IN  \/ /\ \E n \in Name : /\ CanName(ltn, n)
                               /\ ltn' = SetLast(ltn, [l EXCEPT !.name = n])
            /\ UNCHANGED cert
         \/ ltn' = SetLast(ltn, [l EXCEPT !.address = TRUE]) /\ UNCHANGED cert
         \/ /\ \E b \in BOOLEAN : ltn' = SetLast(ltn, [l EXCEPT !.ssl = b])
            /\ UNCHANGED cert
         \/ \E n \in Name : \E i \in Named(cert, n) :
              /\ cert[i].refcnt < MaxRef
              /\ cert' = [cert EXCEPT ![i].refcnt = @ + 1]
              /\ ltn' = SetLast(ltn, [l EXCEPT !.cert = i])
  /\ UNCHANGED <<section, proxy, sp, pl, status, bad, freed>>

\* cfg_load_file takes three arguments at most; a server needs all three.
ServerArgs(narg) == narg < 4 /\ narg = 3

\* algo sets nothing that is modelled.
_cfg_parse_svrpool ==
  /\ In("SVRPOOL")
  /\ LET s == Last(sp)
     IN  \/ \E n \in Name : /\ CanName(sp, n)
                            /\ sp' = SetLast(sp, [s EXCEPT !.name = n])
         \/ UNCHANGED sp
         \/ /\ \E narg \in 0..4 : ServerArgs(narg)
            /\ s.nserver < MaxServer
            /\ sp' = SetLast(sp, [s EXCEPT !.nserver = @ + 1])
  /\ UNCHANGED <<section, proxy, cert, ltn, pl, status, bad, freed>>

\* Variant: the listener may serve another policy already.
PolicyListener_Shared(i) ==
  /\ ltn[i].refcnt < MaxRef
  /\ ltn' = [ltn EXCEPT ![i].refcnt = @ + 1]
  /\ pl' = SetLast(pl, [Last(pl) EXCEPT !.listener = i])

\* The listener is cloned, and the one that was set before is forgotten.
PolicyListener(i) ==
  /\ \A p \in DOMAIN pl : pl[p].listener # i
  /\ ltn[i].refcnt < MaxRef
  /\ ltn' = [ltn EXCEPT ![i].refcnt = @ + 1]
  /\ pl' = SetLast(pl, [Last(pl) EXCEPT !.listener = i])

\* Variant: the pool is not cloned.
PolicySvrpool_NoClone(i) ==
  /\ pl' = SetLast(pl, [Last(pl) EXCEPT !.svrpool = i])
  /\ UNCHANGED sp

PolicySvrpool(i) ==
  /\ sp[i].refcnt < MaxRef
  /\ sp' = [sp EXCEPT ![i].refcnt = @ + 1]
  /\ pl' = SetLast(pl, [Last(pl) EXCEPT !.svrpool = i])

\* mode sets nothing that is modelled.
_cfg_parse_policy ==
  /\ In("POLICY")
  /\ \/ /\ \E n \in Name : /\ CanName(pl, n)
                            /\ pl' = SetLast(pl, [Last(pl) EXCEPT !.name = n])
        /\ UNCHANGED <<ltn, sp>>
     \/ UNCHANGED <<ltn, sp, pl>>
     \/ (\E n \in Name : \E i \in Named(ltn, n) : PolicyListener(i)) /\ UNCHANGED sp
     \/ (\E n \in Name : \E i \in Named(sp, n) : PolicySvrpool(i)) /\ UNCHANGED ltn
  /\ UNCHANGED <<section, proxy, cert, status, bad, freed>>

\* Every other line ends the load: a wrong one, a header after an unfinished
\* section or for a full list, one whose allocation fails.
Reject ==
  /\ status = "load" /\ status' = "error"
  /\ \/ bad' = <<"wrong", 0>>
     \/ ~_cfg_check_section /\ bad' = <<"header", 0>>
     \/ MayNotAlloc /\ bad' = <<"alloc", 0>>
     \/ /\ section = "SVRPOOL"
        /\ \E narg \in 0..4 : ~ServerArgs(narg) /\ bad' = <<"server", narg>>
  /\ UNCHANGED <<section, proxy, objects, freed>>

\* The end of the file.
cfg_load_file ==
  /\ status = "load"
  /\ status' = IF _cfg_check_section THEN "ok" ELSE "error"
  /\ UNCHANGED <<section, proxy, objects, bad, freed>>

\* How often proxy_free and policy_free give up listener or pool i.
Frees(i, field) == 1 + Cardinality({p \in DOMAIN pl : pl[p][field] = i})

\* _release: an object is freed by the call that finds refcnt 0.  certlist is not
\* walked.
proxy_free ==
  /\ status \in {"ok", "error"} /\ status' = "released"
  /\ freed' = [ltn |-> {i \in DOMAIN ltn : Frees(i, "listener") > ltn[i].refcnt},
               sp  |-> {i \in DOMAIN sp : Frees(i, "svrpool") > sp[i].refcnt}]
  /\ UNCHANGED <<section, proxy, objects, bad>>

LoadEnded == status = "released" /\ UNCHANGED cfgvars

LoadInit ==
  /\ section = "PROXY" /\ proxy = [nworker |-> 1, nice |-> 0, number |-> TRUE]
  /\ cert = <<>> /\ ltn = <<>> /\ sp = <<>> /\ pl = <<>>
  /\ status = "load" /\ bad = <<"", 0>> /\ freed = [ltn |-> {}, sp |-> {}]

LoadNext ==
  \/ Header \/ _cfg_parse_proxy \/ _cfg_parse_certset \/ _cfg_parse_listener
  \/ _cfg_parse_svrpool \/ _cfg_parse_policy \/ Reject \/ cfg_load_file
  \/ proxy_free \/ LoadEnded

LoadSpec == LoadInit /\ [][LoadNext]_cfgvars

-----------------------------------------------------------------------------
(* Properties.                                                             *)

Distinct(s) == \A i, j \in DOMAIN s : s[i].name = s[j].name /\ s[i].name # NoName => i = j

\* proxy_find_xxx is unambiguous: no two objects of a list have the same name,
\* at any point of the load.
UniqueNames == Distinct(cert) /\ Distinct(ltn) /\ Distinct(sp) /\ Distinct(pl)

\* A configuration that is accepted is complete: every section of every list
\* passed its check, whatever came after it.
Complete ==
  status = "ok" =>
    /\ \A i \in DOMAIN cert : CertDone(cert[i])
    /\ \A i \in DOMAIN ltn : LtnDone(ltn[i])
    /\ \A i \in DOMAIN sp : SpDone(sp[i])
    /\ \A i \in DOMAIN pl : PolicyDone(pl[i])

\* Two policies never listen on the same listener.
Exclusive ==
  \A p, q \in DOMAIN pl : pl[p].listener = pl[q].listener /\ pl[p].listener # 0 => p = q

\* What cfg_load_file accepts is unambiguous and complete, whatever the order and
\* the repetition of sections and keywords.
Accepted == UniqueNames /\ Complete /\ Exclusive

\* proxy_free frees no object twice, after a load that failed anywhere too.
NoOverFree ==
  /\ \A i \in DOMAIN ltn : Frees(i, "listener") <= ltn[i].refcnt + 1
  /\ \A i \in DOMAIN sp : Frees(i, "svrpool") <= sp[i].refcnt + 1

\* proxy_free frees all listeners and pools that were added.
AllFreed ==
  status = "released" => freed.ltn = DOMAIN ltn /\ freed.sp = DOMAIN sp

\* A server of the documented format, with or without a certset, is accepted.
DocAccepted == bad \notin {<<"server", 3>>, <<"server", 4>>}

\* A certset that is given as a PKCS12 file has that type.
Pkcs12Type ==
  status = "ok" => \A i \in DOMAIN cert : cert[i].file = "pkcs12" => cert[i].type = "PKCS12"

\* A value that is accepted is the number in the file.
NiceIsNumber == proxy.number
=============================================================================
