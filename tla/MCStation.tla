----------------------------- MODULE MCStation -----------------------------
(* An instance of Station for TLC. *)
EXTENDS Station

CONSTANTS cv1, v1, v2, l1, fast

Op(kind, item, value) == [kind |-> kind, item |-> item, value |-> value]
Connect == Op("connect", None, None)
Reconnect == <<Op("disconnect", None, None), Connect>>
On == Op("power", None, "on")
Off == Op("power", None, "off")
Drive == Op("throttle", l1, fast)
Halt == Op("throttle", l1, "standing")
WriteCv(v) == Op("program", cv1, v)
Light == Op("function", l1, None)
ReadCv == Op("read", cv1, None)
WriteAddress(v) == Op("program", DecoderAddress, v)
ReadAddress == Op("read", DecoderAddress, None)

Once(kinds) == [k \in Chance |-> IF k \in kinds THEN 1 ELSE 0]
With(calls_, kinds) == [calls |-> <<Connect>> \o calls_, chances |-> Once(kinds)]

StationScenarios ==
    {With(<<Off, WriteCv(v1), WriteCv(v2)>>, kinds) : kinds \in {{"ack"}, {"noise"}}}
    \cup {With(<<Off, WriteCv(v1), ReadCv>>, kinds) : kinds \in {{"ack", "write"}, {"noise"}}}
    \cup {With(<<Off, WriteAddress(v1), WriteAddress(v1)>>, kinds) : kinds \in {{"ack"}, {"noise"}}}
    \cup {With(<<Off, WriteAddress(v1), ReadAddress>>, kinds) : kinds \in {{"ack", "write"}, {"noise"}}}
    \cup {With(<<On, Off, Connect, WriteCv(v1)>>, kinds) : kinds \in {{"trip", "write"}, {"reader"}}}
    \cup {With(<<On, Off>> \o Reconnect \o <<WriteCv(v1)>>, kinds) : kinds \in {{"restart"}, {"write"}}}
    \cup {With(<<Off, On, Off, ReadCv>>, {"noise"}), With(<<On, Off, On, ReadCv>>, {}),
          With(<<On, ReadCv>>, {"trip"}), With(Reconnect \o <<ReadCv>>, {})}
    \cup {With(<<On, Drive, Halt>>, kinds) : kinds \in {{"emergency", "write"}, {"trip"}, {"reader"}}}
    \cup {With(<<Drive>> \o Reconnect \o <<Light, Halt>>, kinds) : kinds \in {{"restart"}, {"emergency"}, {"noise"}}}
    \cup {With(<<Light, Drive, Light>>, kinds) : kinds \in {{"emergency"}, {"write"}}}
=============================================================================
