-------------------------- MODULE MCMessageFilter --------------------------
(* Words that overlap themselves ("==" does) and one another.              *)
EXTENDS MessageFilter

MCWords == << <<"=", "=">>, <<"h", "e", "h">>, <<"e", "=">> >>
============================================================================
