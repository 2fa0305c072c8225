-------------------------- MODULE MCMessageHandler --------------------------
\* A small instance of MessageHandler for TLC: an int has three bits.
EXTENDS MessageHandlerProofs

Keyed(id, num, exp, interval, download) ==
  [cmd_id |-> id, num_exposures |-> num, exposure_time |-> exp, interval |-> interval,
   download |-> download]

One(id) == Keyed(Integer(id), NoNumber, NoNumber, NoNumber, NoNumber)

Full(id) == Keyed(id, Integer(1), Integer(3), Integer(2), Boolean(TRUE))

\* Every command alone, with all its fields, and with one that does not fit or is of
\* another kind; ids that are none, beyond a byte, and no numbers.
DocumentSet ==
  {One(id) : id \in CmdId \cup {0, 257}}
  \cup {Full(Integer(id)) : id \in {19, 20, 30, -1, 256 + 20}}
  \cup {Full(v) : v \in {Float(30), Boolean(TRUE), NoNumber}}
  \cup {[Full(Integer(id)) EXCEPT !["num_exposures"] = v] :
         id \in {20, 30}, v \in {Integer(-1), Integer(7), Boolean(TRUE), NoNumber}}
  \cup {[Full(Integer(id)) EXCEPT !["exposure_time"] = v] :
         id \in {20, 30}, v \in {Integer(-5), NoNumber}}
  \cup {[Full(Integer(30)) EXCEPT !["interval"] = v] : v \in {Float(4), NoNumber}}
  \cup {[Full(Integer(id)) EXCEPT !["download"] = v] :
         id \in {19, 20, 30}, v \in {Boolean(FALSE), Integer(1)}}
=============================================================================
