---------------------------- MODULE MCDeviceList ----------------------------
(* Model checking of DeviceList: devices with sound configurations, and    *)
(* some whose numbers of interfaces and endpoints are wrong.               *)
EXTENDS DeviceList

D(type, length, alt, count) == [type |-> type, length |-> length, alt |-> alt, count |-> count]
Config(n) == D("config", 9, 0, n)
Iface(alt, n) == D("interface", 9, alt, n)
Ep(length) == D("endpoint", length, 2, 64)
Class(length) == D("class", length, 0, 0)

Endpt(length, extra) == [descriptor |-> Ep(length), extra |-> extra]
Setting(alt, extra, eps) ==
    [descriptor |-> Iface(alt, Len(eps)), extra |-> extra, endpoint |-> "set", endpoints |-> eps]
(* An idle and a busy setting, and an interface behind them. *)
Tree1 == [extra |-> <<Class(8)>>, interfaces |->
            << <<Setting(0, <<>>, <<>>),
                 Setting(1, <<Class(5)>>, <<Endpt(9, <<>>), Endpt(7, <<Class(6), Class(4)>>)>>)>>,
               <<Setting(0, <<Class(9)>>, <<Endpt(7, <<>>)>>)>> >>]
Tree2 == [extra |-> <<>>, interfaces |-> << <<Setting(0, <<>>, <<>>)>> >>]
NoInterfaces == [extra |-> <<>>, interfaces |-> <<>>]

Sound(model, trees) ==
    [model |-> model, means |-> trees,
     configs |-> [k \in DOMAIN trees |->
                    <<Config(Len(trees[k].interfaces))>> \o Flat(trees[k])]]
Wrong(model, sent) == [model |-> model, means |-> <<>>, configs |-> <<sent>>]

MCProducts ==
    { Sound("a", <<Tree1>>), Sound("b", <<Tree2, NoInterfaces>>), Sound("bare", <<>>),
      Wrong("a", <<Config(2), Iface(0, 2), Ep(7), Iface(0, 1)>>),
      Wrong("c", <<Config(1), Iface(0, 0), Ep(7), Ep(7), Class(3)>>),
      Wrong("c", <<Config(3), Class(2), Iface(0, 1), Class(4), Ep(5), Ep(9), Class(0)>>),
      Wrong("d", <<Config(2), Iface(0, 1), Config(1), Iface(1, 33)>>),
      Wrong("d", <<Config(33), Iface(0, 0)>>) }
=============================================================================
