---------------------------- MODULE MCEtcdWatch ----------------------------
(* Instances of EtcdWatch for TLC. *)
EXTENDS EtcdWatch

\* Two components, as the processor and the router.
MCSubscribers == {"processor", "router"}

\* One component.
MCOneSubscriber == {"processor"}
====
