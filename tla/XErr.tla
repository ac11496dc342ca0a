-------------------------------- MODULE XErr --------------------------------
(***************************************************************************)
(* Package xerr (src/xerr/__init__.py): the Error exception that wraps a   *)
(* cause, its rendering, cause(), the context manager, and the runtime     *)
(* registry of well-defined errors (module-global tuples that              *)
(* register_wde_class/register_wde_object extend).                        *)
(*                                                                         *)
(* An exception is a record.  cls is its class and obj its identity: the  *)
(* name of a module-level error object, or "" for an instance made where  *)
(* it is raised (such instances are never compared with `is`).  text is   *)
(* what "%s" % e gives for an exception that is not an Error, as a        *)
(* sequence of ": "-separated pieces.  An Error has msg (.err), cause      *)
(* (.cause_exc) and tb (.cause_tb is not None).                            *)
(***************************************************************************)
EXTENDS Sequences, SequencesExt

CONSTANTS
    None,     \* Python None
    Isa       \* class -> the classes its instances are isinstance of

VARIABLES
    wdeClassv,   \* _wde_classv
    wdeObjectv   \* _wde_objectv

\* the line Error.__str__ appends when it shows the cause traceback
Traceback == "cause traceback"

\* an exception of class cls that is not an Error
Exc(cls, obj, text) ==
    [cls |-> cls, obj |-> obj, msg |-> "", text |-> text, cause |-> None, tb |-> FALSE]

\* Error(err, cause_exc, cause_tb)
Error(err, cause_exc, cause_tb) ==
    [cls |-> "Error", obj |-> "", msg |-> err, text |-> <<>>,
     cause |-> cause_exc, tb |-> cause_tb]

isinstance(e, c) == e # None /\ c \in Isa[e.cls]

\* isinstance against _wde_classv, or `is` one of _wde_objectv
well_defined(err) ==
    \/ \E i \in DOMAIN wdeClassv : isinstance(err, wdeClassv[i])
    \/ \E i \in DOMAIN wdeObjectv : err # None /\ err.obj = wdeObjectv[i]

\* the deepest non-None cause
RECURSIVE cause(_)
cause(err) ==
    IF isinstance(err, "Error")
    THEN IF err.cause = None THEN err ELSE cause(err.cause)
    ELSE err

\* Error.__str__: walk the Error chain collecting .err, keeping the last
\* .cause_tb; append the non-Error cause; append the traceback when there
\* is one and that cause is not well-defined.
RECURSIVE StrWalk(_, _, _)
StrWalk(e, errv, tb) ==
    IF isinstance(e, "Error")
    THEN StrWalk(e.cause, Append(errv, e.msg), e.tb)
    ELSE (IF e # None THEN errv \o e.text ELSE errv)
         \o (IF tb /\ ~well_defined(e) THEN <<Traceback>> ELSE <<>>)

Str(e) == StrWalk(e, <<>>, FALSE)

\* "%s" % e for any exception
StrOf(e) == IF isinstance(e, "Error") THEN Str(e) ELSE e.text

\* context.__exit__: an exception leaving the block is re-raised wrapped,
\* with the traceback it was raised with
context_exit(errprefix, exc_val) == Error(errprefix, exc_val, TRUE)

\* the module body: _wde_classv = () ... register_wde_class(Error)
XErrInit ==
    /\ wdeClassv = <<"Error">>
    /\ wdeObjectv = <<>>

register_wde_class(exc_class) ==
    /\ wdeClassv' = Append(wdeClassv, exc_class)
    /\ UNCHANGED wdeObjectv

register_wde_object(exc_object) ==
    /\ wdeObjectv' = Append(wdeObjectv, exc_object)
    /\ UNCHANGED wdeClassv

==============================================================================
