------------------------------ MODULE MCGuest -----------------------------
(* Instances of the guest for TLC. *)
EXTENDS GuestProperties, TLC

CONSTANTS x1, x2

(* Modules in the order of their names; the first needs the second, which  *)
(* needs one that is built in or missing.                                  *)
NinePOrder == <<"9p", "9pnet", "9pnet_virtio", "virtio_x">>
NineP == Range(NinePOrder)
NinePNeeds == ("9p" :> {"9pnet"}) @@ ("9pnet" :> {}) @@
              ("9pnet_virtio" :> {"9p"}) @@ ("virtio_x" :> {"missing"})
Mountable == {"9p", "9pnet", "9pnet_virtio"}

Volume(source, target, readonly) ==
  [source |-> source, target |-> target, readonly |-> readonly]
Container(by, modular, cmd, ip, iface, volumes, shell) ==
  [by |-> by, modular |-> modular, cmd |-> cmd, ip |-> ip, iface |-> iface,
   volumes |-> volumes, shell |-> shell]

Data == Volume(<<"/data">>, <<"/mnt">>, FALSE)
Conf == Volume(<<"/my", "conf">>, <<"/etc/app">>, TRUE)

Containers == {
  Container("run", TRUE, <<<<"top">>>>, <<"10.88.0.2">>, TRUE, <<Conf, Data>>, TRUE),
  Container("run", FALSE, <<>>, <<>>, TRUE, <<>>, TRUE),
  Container("start", FALSE, <<>>, <<"10.88.0.2">>, FALSE, <<Data, Conf>>, TRUE),
  Container("start", FALSE, <<<<"top">>>>, <<"10.88.0.2">>, TRUE, <<>>, FALSE),
  Container("start", TRUE, <<>>, <<"10.88.0.2">>, TRUE, <<>>, TRUE)}
=============================================================================
