---------------------------- MODULE MCFragTraffic ----------------------------
(* FragTraffic with three packets of one client, two of them with the same id,
   and frames that another client sends under that id too: as in the tests of
   frame.rs of a wrong pmtu or a wrong part, with totals of none, one and two.
   Their len is always the length of their data. *)
EXTENDS FragTraffic

K1 == <<"c1", 1>>
K2 == <<"c1", 2>>
K3 == <<"c2", 1>>
MCKey == {K1, K2, K3}

Sent == {[key |-> K1, pmtu |-> 2, parts |-> << <<1, 2>>, <<3>> >>, copies |-> 2],
         [key |-> K1, pmtu |-> 1, parts |-> << <<4>>, <<5>> >>, copies |-> 1],
         [key |-> K2, pmtu |-> 2, parts |-> << <<6, 7>>, <<6>> >>, copies |-> 2]}

EvenFrame ==
  {f \in [key : {K3}, part : {0, 1, 3}, total : {0, 1, 2}, len : {1, 2},
          pmtu : {1, 2}, data : {<<1>>, <<1, 1>>}] :
     /\ f.len = Len(f.data)
     /\ f.part # 1 => f.pmtu = 1
     /\ f.part = 3 \/ f.total # 2 => f.len = 1 /\ f.pmtu = 1}

MCFrame == EvenFrame \cup UNION {{FrameOf(d, p) : p \in DOMAIN d.parts} : d \in Sent}
=============================================================================
