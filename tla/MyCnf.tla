------------------------------- MODULE MyCnf -------------------------------
(***************************************************************************)
(* ReadMyCnfFile: the MySQL options of ~/.my.cnf.  The options of section  *)
(* [mysql] are applied first, then those of [client].  Each section is a   *)
(* Go map, which is ranged over in no fixed order.                         *)
(***************************************************************************)
EXTENDS Integers

CONSTANTS
    MysqlSec,      \* the options of [mysql]: MysqlSec[key] is the last value
    ClientSec,     \* the options of [client]
    PortNumber(_)  \* strconv.Atoi of a value, 0 when it is not a number

VARIABLES
    section,  \* the section that is being applied, "done" after both
    left,     \* its keys that the loop has not reached yet
    opts      \* MySQLOptions

optionVars == <<section, left, opts>>

\* Which field a key of the file sets; other keys are ignored.
FieldOf ==
    [k \in {"user", "password", "host", "port", "database", "db", "socket",
            "ssl-mode", "ssl", "ssl-verify"} |->
        IF k \in {"database", "db"} THEN "Database"
        ELSE IF k \in {"ssl-mode", "ssl"} THEN "UseTLS"
        ELSE IF k = "ssl-verify" THEN "TLSSkipVerify" ELSE k]

Fields == {"user", "password", "host", "port", "Database", "socket", "UseTLS",
           "TLSSkipVerify"}

Defaults == [f \in Fields |->
    IF f = "port" THEN 3306 ELSE IF f \in {"UseTLS", "TLSSkipVerify"} THEN FALSE ELSE ""]

\* parseBool, and the modes of ssl-mode that ask for TLS (in capitals).
TrueWords == {"1", "true", "yes", "on"}
TLSModes == {"REQUIRED", "VERIFY_CA", "VERIFY_IDENTITY", "PREFERRED"}

\* An option that has no effect: an unknown key, a port that is not a
\* positive number, any other ssl-mode, DISABLED included.
Sets(k, v) ==
    /\ k \in DOMAIN FieldOf
    /\ k = "port" => PortNumber(v) > 0
    /\ k = "ssl-mode" => v \in TLSModes

Meaning(k, v) ==
    CASE k = "port" -> PortNumber(v)
      [] k = "ssl-mode" -> TRUE
      [] k = "ssl" -> v \in TrueWords
      [] k = "ssl-verify" -> v \notin TrueWords
      [] OTHER -> v

applyOption(o, k, v) ==
    IF Sets(k, v) THEN [o EXCEPT ![FieldOf[k]] = Meaning(k, v)] ELSE o

Options == IF section = "mysql" THEN MysqlSec ELSE ClientSec

ReadInit ==
    /\ section = "mysql"
    /\ left = DOMAIN MysqlSec
    /\ opts = Defaults

\* One iteration of a loop over a section.
Apply(k) ==
    /\ k \in left
    /\ left' = left \ {k}
    /\ opts' = applyOption(opts, k, Options[k])
    /\ UNCHANGED section

\* [mysql] first, then [client].
ClientNext ==
    /\ section = "mysql" /\ left = {}
    /\ section' = "client"
    /\ left' = DOMAIN ClientSec
    /\ UNCHANGED opts

ReturnOptions ==
    /\ section = "client" /\ left = {}
    /\ section' = "done"
    /\ UNCHANGED <<left, opts>>

ReadNext == (\E k \in left : Apply(k)) \/ ClientNext \/ ReturnOptions

ReadSpec == ReadInit /\ [][ReadNext]_optionVars

-----------------------------------------------------------------------------
\* What the given keys of a section say of a field.
Says(sec, keys, f) ==
    {Meaning(k, sec[k]) : k \in {x \in keys : Sets(x, sec[x]) /\ FieldOf[x] = f}}

Otherwise(answers, rest) == IF answers = {} THEN rest ELSE answers

\* What [mysql] leaves in a field, and what both sections do.
FromMysql(f) == Otherwise(Says(MysqlSec, DOMAIN MysqlSec, f), {Defaults[f]})
FromBoth(f) == Otherwise(Says(ClientSec, DOMAIN ClientSec, f), FromMysql(f))

\* "Keys from [client] take precedence over [mysql]", mycnf.go, whatever the
\* order of the loops: a field is what [client] says of it; if it says nothing
\* that has an effect, what [mysql] says; else the default.  Where one section
\* gives two keys for a field, db and database or ssl and ssl-mode, either
\* may win.
ClientFirst == section = "done" => \A f \in Fields : opts[f] \in FromBoth(f)
=============================================================================
