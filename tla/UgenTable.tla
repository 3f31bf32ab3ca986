----------------------------- MODULE UgenTable -----------------------------
(***************************************************************************)
(* The signatures of the registered unit generators, read off the handlers *)
(* in ugens/*.c and named as they are, and the table of h/ugens.h.         *)
(*                                                                         *)
(* Handlers are written by hand, one by one, so that nothing but care      *)
(* keeps their three modes in step; the ones that differ from the common   *)
(* shape show below as the definitions with an EXCEPT or a modifier.       *)
(*                                                                         *)
(* Left out, since a signature cannot say what they do: mix (pops all that *)
(* is there), print (takes either type), eval, load and render (parse      *)
(* another patch), f and fe (call a plugin).                               *)
(***************************************************************************)
EXTENDS Ugen, SequencesExt

TEXT == "text"   \* a string that a handler found in a file

ASSUME UgenTableAssumption == TEXT \in Strings

---------------------------------------------------------------------------
(* The common shape: CREATE checks and pops its arguments, the last first, *)
(* and pushes placeholders; INIT does so again; COMPUTE, which no string   *)
(* reaches, pops the floats among them.  A COMPUTE that checks before it   *)
(* pops (mul, frac, mtof, edo, fm, sine) raises the same error, with the   *)
(* values still there, and nothing reads them under an error.              *)

F(n) == [i \in 1 .. n |-> "f"]
S(n) == [i \in 1 .. n |-> "s"]
Outs(n) == [i \in 1 .. n |-> FLOAT]

Plain(types, n) == [pop |-> Reverse(types), finds |-> {}, adds |-> <<>>, push |-> Outs(n)]
Silent == Plain(<<>>, 0)

Std(types, n) ==
  [guard |-> FALSE, checked |-> TRUE, late |-> FALSE, args |-> types,
   create |-> Plain(types, n), init |-> Plain(types, n),
   compute |-> Plain(SelectSeq(types, LAMBDA t : t = "f"), n),
   fails |-> FALSE, quits |-> FALSE, shares |-> FALSE]

Floats(m, n) == Std(F(m), n)

\* How a handler departs from it.
Guarded(sig)     == [sig EXCEPT !.guard = TRUE]
Unchecked(sig)   == [sig EXCEPT !.checked = FALSE]
Late(sig)        == [sig EXCEPT !.late = TRUE]
Fails(sig)       == [sig EXCEPT !.fails = TRUE]
Quits(sig)       == [sig EXCEPT !.quits = TRUE]
Shares(sig)      == [sig EXCEPT !.shares = TRUE]
NoCreatePop(sig) == [sig EXCEPT !.create.pop = <<>>]
PushesString(sig) == [sig EXCEPT !.create.push = <<TEXT>>, !.init.push = <<TEXT>>]

\* Table names are given by their place in popping order.
Looked(ns, type) == {[arg |-> n, type |-> type] : n \in ns}
FindsTable(ns, sig)       == [sig EXCEPT !.create.finds = Looked(ns, PTYPE_TABLE)]
FindsUserdata(ns, sig)    == [sig EXCEPT !.create.finds = Looked(ns, PTYPE_USERDATA)]
FindsTableAtInit(ns, sig) == [sig EXCEPT !.init.finds = Looked(ns, PTYPE_TABLE)]

Add(n, type, owned) == <<[arg |-> n, type |-> type, owned |-> owned]>>
AddsTable(n, sig)    == [sig EXCEPT !.create.adds = Add(n, PTYPE_TABLE, TRUE)]
AddsUserdata(n, sig) == [sig EXCEPT !.create.adds = Add(n, PTYPE_USERDATA, TRUE)]
\* between plumber_ftmap_delete(pd, 0) and plumber_ftmap_delete(pd, 1)
AddsUserdataShared(n, sig) == [sig EXCEPT !.create.adds = Add(n, PTYPE_USERDATA, FALSE)]
AddsAtInit(n, sig)         == [sig EXCEPT !.init.adds = Add(n, PTYPE_USERDATA, FALSE)]

---------------------------------------------------------------------------
(* The handlers, in the order of their files.                              *)

sporth_adsr         == [Floats(5, 1) EXCEPT !.args = F(4)]
sporth_autowah      == Floats(4, 1)
sporth_drop         == Unchecked(Floats(1, 0))
sporth_rot          == Floats(3, 3)
\* dup and dup2 do not call sporth_check_args: they pop and test the error,
\* which refuses the same stacks, and nobody reads what is left on those.
sporth_dup          == Floats(1, 2)
sporth_dup2         == Floats(2, 4)
sporth_swap         == [Floats(2, 2) EXCEPT !.create = Silent]
sporth_sine         == Floats(2, 1)
sporth_add          == Guarded(Floats(2, 1))
sporth_mul          == Guarded(Floats(2, 1))
sporth_sub          == Guarded(Floats(2, 1))
sporth_divide       == Guarded(Floats(2, 1))
sporth_max          == Guarded(Floats(2, 1))
sporth_min          == Floats(2, 1)
sporth_abs          == Guarded(Floats(1, 1))
sporth_floor        == Guarded(Floats(1, 1))
sporth_frac         == Guarded(Floats(1, 1))
sporth_log          == Guarded(Floats(1, 1))
sporth_log10        == Guarded(Floats(1, 1))
sporth_round        == Guarded(Floats(1, 1))
sporth_mtof         == Guarded(Floats(1, 1))
sporth_edo          == Guarded(Floats(2, 1))
sporth_eq           == Guarded(Floats(2, 1))
sporth_lt           == Guarded(Floats(2, 1))
sporth_gt           == Guarded(Floats(2, 1))
sporth_ne           == Guarded(Floats(2, 1))
sporth_branch       == Guarded(Floats(3, 1))
sporth_pos          == Guarded(Floats(0, 1))
sporth_dur          == Guarded(Floats(0, 1))
sporth_durs         == Guarded(Floats(0, 1))
sporth_setdurs      == Guarded(Floats(1, 0))
sporth_ampdb        == Late(Floats(1, 1))
sporth_sr           == Guarded(Floats(0, 1))
sporth_limit        == Floats(3, 1)
sporth_inv          == Floats(1, 1)
sporth_sqrt         == Floats(1, 1)
sporth_biscale      == Floats(3, 1)
sporth_bitcrush     == [Floats(3, 1) EXCEPT !.args = F(2)]
sporth_and          == Floats(2, 1)
sporth_or           == Floats(2, 1)
sporth_leftshift    == Floats(2, 1)
sporth_rightshift   == Floats(2, 1)
sporth_xor          == Floats(2, 1)
sporth_mod          == Floats(2, 1)
sporth_blsaw        == Floats(2, 1)
sporth_blsquare     == Floats(3, 1)
sporth_bltriangle   == Floats(2, 1)
sporth_bpm2dur      == Late(Floats(1, 1))
sporth_bpm2rate     == Late(Floats(1, 1))
sporth_brown        == Floats(0, 1)
sporth_butbp        == NoCreatePop(Floats(3, 1))
sporth_butbr        == NoCreatePop(Floats(3, 1))
sporth_buthp        == Floats(2, 1)
sporth_butlp        == Floats(2, 1)
sporth_cdb          == Fails(FindsUserdata({1}, PushesString(Std(S(2), 0))))
sporth_cdbload      == Shares(AddsUserdata(2, Std(S(2), 0)))
sporth_cdbtab       == Fails(FindsUserdata({1}, AddsTable(3, Std(S(3), 0))))
sporth_changed      == Floats(1, 1)
sporth_clock        == Floats(3, 1)
sporth_count        == Floats(3, 1)
sporth_crossfade    == Floats(3, 1)
sporth_dcblock      == Floats(1, 1)
sporth_delay        == Floats(3, 1)
sporth_diode        == Floats(3, 1)
sporth_dmetro       == Floats(1, 1)
sporth_dtrig        == FindsTable({1}, Std(F(4) \o S(1), 1))
sporth_eqfil        == [NoCreatePop(Floats(4, 1)) EXCEPT !.args = F(3)]
sporth_expon        == NoCreatePop(Floats(4, 1))
sporth_fload        == Fails(AddsUserdata(2, Std(S(2), 0)))
sporth_fclose       == FindsUserdata({1}, Std(S(1), 0))
sporth_floadi       == Fails(AddsUserdata(3, Std(<<"s", "f", "s">>, 0)))
sporth_fm           == Guarded(Floats(5, 1))
sporth_fosc         == FindsTable({1}, Std(F(5) \o S(1), 1))
sporth_ftsum        == Guarded(FindsTable({1}, Std(<<"f", "f", "s">>, 1)))
sporth_gen_eval     == AddsTable(3, Std(<<"s", "f", "s">>, 0))
sporth_gen_padsynth == FindsTable({1}, AddsTable(5, Std(S(1) \o F(3) \o S(1), 0)))
sporth_gen_sine     == AddsTable(2, Std(<<"s", "f">>, 0))
sporth_gen_sporth   == AddsTable(3, Std(<<"s", "f", "s">>, 0))
sporth_gen_vals     == AddsTable(2, Std(S(2), 0))
sporth_in           == Floats(0, 1)
sporth_incr         == Floats(5, 1)
sporth_jcrev        == Floats(1, 1)
sporth_jitter       == Floats(3, 1)
sporth_line         == NoCreatePop(Floats(4, 1))
sporth_loadspa      == Fails(AddsTable(2, Std(S(2), 0)))
sporth_loadwav      == Fails(AddsTable(2, Std(S(2), 0)))
sporth_lpc          == Floats(2, 1)
sporth_lpcsynth     == AddsTable(1, Std(<<"f", "s">>, 1))
sporth_lsys         == Std(<<"f", "f", "s">>, 1)
sporth_markleft     == Floats(0, 0)
sporth_markright    == Floats(0, 0)
sporth_maygate      == Floats(2, 1)
sporth_maytrig      == Floats(2, 1)
sporth_metro        == [Floats(1, 1) EXCEPT !.init.pop = <<>>]
sporth_mode         == Floats(3, 1)
sporth_moogladder   == Floats(3, 1)
sporth_noise        == Floats(1, 1)
sporth_nsmp         == Guarded(Fails(FindsTable({1}, Std(F(3) \o S(2), 1))))
\* Wrong: INIT forgets to pop one of the three floats.
osc_InitKeeps == Guarded(FindsTable({1}, [Std(F(3) \o S(1), 1) EXCEPT !.init.pop = S(1) \o F(2)]))
sporth_osc          == Guarded(FindsTable({1}, Std(F(3) \o S(1), 1)))
sporth_oscmorph4    == FindsTable({1, 2, 3, 4}, Std(F(4) \o S(4), 1))
sporth_oscmorph2    == FindsTable({1, 2}, Std(F(4) \o S(2), 1))
sporth_p            == Floats(1, 1)
sporth_pset         == Floats(2, 0)
sporth_palias       == AddsUserdataShared(2, Std(<<"s", "f">>, 0))
sporth_paulstretch  == FindsTable({1}, Std(<<"f", "f", "s">>, 1))
sporth_peaklim      == Floats(4, 1)
sporth_phaser       == Floats(12, 2)
sporth_phasewarp    == Floats(2, 1)
sporth_phasor       == Floats(2, 1)
sporth_pinknoise    == Floats(1, 1)
sporth_ps           == Fails(Std(<<"f", "s", "s">>, 0))
sporth_psh          == Fails(AddsUserdataShared(3, Std(<<"s", "f", "s">>, 0)))
sporth_pst          == FindsUserdata({1}, Std(<<"f", "f", "s">>, 1))
sporth_port         == Floats(2, 1)
sporth_tport        == Floats(3, 1)
sporth_prop         == Fails(Std(<<"f", "s">>, 1))
sporth_tprop        == Fails(Std(<<"f", "f", "s">>, 1))
sporth_pshift       == Floats(4, 1)
sporth_rand         == Floats(2, 1)
sporth_randh        == Floats(3, 1)
sporth_randi        == Floats(3, 1)
sporth_ref          == AddsAtInit(1, Std(S(1), 0))
sporth_reverse      == Floats(2, 1)
sporth_revsc        == Floats(4, 2)
sporth_rpt          == Floats(6, 1)
sporth_samphold     == Floats(2, 1)
sporth_saturator    == Floats(3, 1)
sporth_say          == Std(S(1), 0)
sporth_scale        == Floats(3, 1)
sporth_scrambler    == AddsTable(2, Std(S(2), 0))
sporth_scrubby      == FindsTableAtInit({1}, Std(F(4) \o S(1), 1))
sporth_sdelay       == Floats(2, 1)
sporth_slice        == FindsTableAtInit({1, 2}, Std(F(2) \o S(2), 1))
sporth_slist        == Shares(Fails(AddsUserdata(3, Std(<<"s", "f", "s">>, 0))))
sporth_sget         == Fails(FindsUserdata({1}, PushesString(Std(<<"f", "s">>, 0))))
sporth_slick        == FindsUserdata({1}, PushesString(Std(S(1), 0)))
sporth_smoothdelay  == Floats(5, 1)
sporth_spa          == Quits(Std(S(1), 1))
sporth_sparec       == Std(<<"f", "s">>, 1)
sporth_srand        == Floats(1, 0)
sporth_switch       == Unchecked([Floats(3, 1) EXCEPT !.create = Silent])
sporth_tget         == FindsTable({1}, Std(<<"f", "s">>, 1))
sporth_tset         == FindsTable({1}, Std(<<"f", "f", "s">>, 0))
sporth_tblsize      == FindsTable({1}, Std(S(1), 1))
sporth_tbldur       == FindsTable({1}, Std(S(1), 1))
sporth_talias       == FindsTable({1}, AddsUserdataShared(3, Std(<<"s", "f", "s">>, 0)))
sporth_tabread      == FindsTable({1}, Std(F(4) \o S(1), 1))
sporth_tadsr        == Floats(5, 1)
sporth_talkbox      == Floats(3, 1)
sporth_tblrec       == FindsTable({1}, Std(<<"f", "f", "s">>, 1))
sporth_tdiv         == Floats(3, 1)
sporth_tenv         == Floats(4, 1)
sporth_tenv2        == Floats(3, 1)
sporth_tenvx        == Floats(4, 1)
sporth_tgate        == Floats(2, 1)
sporth_thresh       == Floats(3, 1)
sporth_tick         == Floats(0, 1)
sporth_timer        == Floats(1, 1)
sporth_tin          == Floats(1, 1)
sporth_tog          == Floats(1, 1)
sporth_tphasor      == Floats(3, 1)
sporth_trand        == Floats(3, 1)
sporth_tseg         == Floats(5, 1)
sporth_tseq         == Guarded(FindsTableAtInit({1}, Std(<<"f", "f", "s">>, 1)))
sporth_get          == FindsUserdata({1}, Std(S(1), 1))
sporth_set          == FindsUserdata({1}, Std(<<"f", "s">>, 0))
sporth_var          == AddsUserdata(1, Std(S(1), 0))
sporth_varset       == AddsUserdata(2, Std(<<"s", "f">>, 0))
sporth_vdelay       == Floats(4, 1)
sporth_voc          == Unchecked(Floats(5, 1))
sporth_wpkorg35     == Floats(4, 1)
sporth_writecode    == Fails(Std(S(1), 0))
sporth_zeros        == AddsTable(2, Std(<<"s", "f">>, 0))
sporth_zitarev      == Floats(13, 2)
sporth_zrev         == Floats(5, 2)

---------------------------------------------------------------------------
(* h/ugens.h: each word of the language with its handler and with the      *)
(* number of values the header says it takes and leaves.                   *)

Entry(sig, in, out) == [sig |-> sig, in |-> in, out |-> out]

Registered ==
  [adsr |-> Entry(sporth_adsr, 5, 1), autowah |-> Entry(sporth_autowah, 4, 1),
   drop |-> Entry(sporth_drop, 1, 0), rot |-> Entry(sporth_rot, 3, 3),
   dup |-> Entry(sporth_dup, 1, 2), dup2 |-> Entry(sporth_dup2, 2, 4),
   swap |-> Entry(sporth_swap, 2, 2), sine |-> Entry(sporth_sine, 2, 1),
   add |-> Entry(sporth_add, 2, 1), mul |-> Entry(sporth_mul, 2, 1),
   sub |-> Entry(sporth_sub, 2, 1), div |-> Entry(sporth_divide, 2, 1),
   max |-> Entry(sporth_max, 2, 1), min |-> Entry(sporth_min, 2, 1),
   abs |-> Entry(sporth_abs, 2, 1), floor |-> Entry(sporth_floor, 1, 1),
   frac |-> Entry(sporth_frac, 1, 1), log |-> Entry(sporth_log, 1, 1),
   log10 |-> Entry(sporth_log10, 1, 1), round |-> Entry(sporth_round, 1, 1),
   mtof |-> Entry(sporth_mtof, 1, 1), edo |-> Entry(sporth_edo, 2, 1),
   eq |-> Entry(sporth_eq, 2, 1), lt |-> Entry(sporth_lt, 2, 1),
   gt |-> Entry(sporth_gt, 2, 1), ne |-> Entry(sporth_ne, 2, 1),
   branch |-> Entry(sporth_branch, 3, 1), pos |-> Entry(sporth_pos, 0, 1),
   dur |-> Entry(sporth_dur, 0, 1), durs |-> Entry(sporth_durs, 0, 1),
   setdurs |-> Entry(sporth_setdurs, 1, 0),
   ampdb |-> Entry(sporth_ampdb, 1, 1), sr |-> Entry(sporth_sr, 0, 1),
   limit |-> Entry(sporth_limit, 3, 1), inv |-> Entry(sporth_inv, 1, 1),
   sqrt |-> Entry(sporth_sqrt, 1, 0), biscale |-> Entry(sporth_biscale, 3, 1),
   bitcrush |-> Entry(sporth_bitcrush, 3, 1),
   blsaw |-> Entry(sporth_blsaw, 2, 1), saw |-> Entry(sporth_blsaw, 2, 1),
   blsquare |-> Entry(sporth_blsquare, 3, 1),
   square |-> Entry(sporth_blsquare, 2, 1),
   bltriangle |-> Entry(sporth_bltriangle, 2, 1),
   triangle |-> Entry(sporth_bltriangle, 2, 1),
   tri |-> Entry(sporth_bltriangle, 2, 1),
   bpm2dur |-> Entry(sporth_bpm2dur, 1, 1),
   bpm2rate |-> Entry(sporth_bpm2rate, 1, 1),
   brown |-> Entry(sporth_brown, 0, 1), butbp |-> Entry(sporth_butbp, 3, 1),
   butbr |-> Entry(sporth_butbr, 3, 1), buthp |-> Entry(sporth_buthp, 2, 1),
   butlp |-> Entry(sporth_butlp, 2, 1), cdb |-> Entry(sporth_cdb, 2, 1),
   cdbload |-> Entry(sporth_cdbload, 2, 1),
   cdbtab |-> Entry(sporth_cdbtab, 3, 0),
   changed |-> Entry(sporth_changed, 1, 1),
   clock |-> Entry(sporth_clock, 3, 1), count |-> Entry(sporth_count, 3, 1),
   cf |-> Entry(sporth_crossfade, 3, 1),
   crossfade |-> Entry(sporth_crossfade, 3, 1),
   dcblk |-> Entry(sporth_dcblock, 1, 1), delay |-> Entry(sporth_delay, 3, 1),
   diode |-> Entry(sporth_diode, 3, 1), dmetro |-> Entry(sporth_dmetro, 1, 1),
   dtrig |-> Entry(sporth_dtrig, 5, 1), eqfil |-> Entry(sporth_eqfil, 4, 1),
   expon |-> Entry(sporth_expon, 4, 1), fl |-> Entry(sporth_fload, 2, 0),
   fc |-> Entry(sporth_fclose, 1, 0), fli |-> Entry(sporth_floadi, 3, 0),
   fm |-> Entry(sporth_fm, 5, 1), fosc |-> Entry(sporth_fosc, 6, 1),
   ftsum |-> Entry(sporth_ftsum, 3, 1),
   gen_eval |-> Entry(sporth_gen_eval, 3, 0),
   gen_padsynth |-> Entry(sporth_gen_padsynth, 5, 0),
   gen_sine |-> Entry(sporth_gen_sine, 2, 0),
   gen_sporth |-> Entry(sporth_gen_sporth, 3, 0),
   gen_vals |-> Entry(sporth_gen_vals, 2, 0), in |-> Entry(sporth_in, 0, 1),
   incr |-> Entry(sporth_incr, 4, 1), jcrev |-> Entry(sporth_jcrev, 1, 1),
   jitter |-> Entry(sporth_jitter, 3, 1), line |-> Entry(sporth_line, 4, 1),
   loadspa |-> Entry(sporth_loadspa, 2, 0),
   loadwav |-> Entry(sporth_loadwav, 2, 0), lpc |-> Entry(sporth_lpc, 2, 1),
   lpcsynth |-> Entry(sporth_lpcsynth, 2, 1),
   lsys |-> Entry(sporth_lsys, 3, 1), maygate |-> Entry(sporth_maygate, 2, 1),
   maytrig |-> Entry(sporth_maytrig, 2, 1),
   metro |-> Entry(sporth_metro, 1, 1), mode |-> Entry(sporth_mode, 3, 1),
   moogladder |-> Entry(sporth_moogladder, 3, 1),
   noise |-> Entry(sporth_noise, 1, 1), nsmp |-> Entry(sporth_nsmp, 5, 1),
   osc |-> Entry(sporth_osc, 4, 1),
   oscmorph4 |-> Entry(sporth_oscmorph4, 6, 1),
   oscmorph2 |-> Entry(sporth_oscmorph2, 6, 1), p |-> Entry(sporth_p, 1, 1),
   pset |-> Entry(sporth_pset, 2, 0), palias |-> Entry(sporth_palias, 2, 0),
   paulstretch |-> Entry(sporth_paulstretch, 3, 1),
   peaklim |-> Entry(sporth_peaklim, 4, 1),
   phaser |-> Entry(sporth_phaser, 12, 2),
   phasewarp |-> Entry(sporth_phasewarp, 2, 1),
   phasor |-> Entry(sporth_phasor, 2, 1),
   pinknoise |-> Entry(sporth_pinknoise, 1, 1), ps |-> Entry(sporth_ps, 3, 0),
   psh |-> Entry(sporth_psh, 3, 0), pst |-> Entry(sporth_pst, 3, 0),
   port |-> Entry(sporth_port, 2, 1), tport |-> Entry(sporth_tport, 3, 1),
   prop |-> Entry(sporth_prop, 2, 1), tprop |-> Entry(sporth_tprop, 3, 1),
   pshift |-> Entry(sporth_pshift, 4, 1), rand |-> Entry(sporth_rand, 2, 1),
   randh |-> Entry(sporth_randh, 3, 1), randi |-> Entry(sporth_randi, 3, 1),
   ref |-> Entry(sporth_ref, 1, 0), reverse |-> Entry(sporth_reverse, 2, 1),
   revsc |-> Entry(sporth_revsc, 4, 2), rpt |-> Entry(sporth_rpt, 3, 1),
   samphold |-> Entry(sporth_samphold, 2, 1),
   saturator |-> Entry(sporth_saturator, 3, 1),
   say |-> Entry(sporth_say, 1, 0), scale |-> Entry(sporth_scale, 3, 1),
   scrambler |-> Entry(sporth_scrambler, 2, 0),
   scrubby |-> Entry(sporth_scrubby, 5, 1),
   sdelay |-> Entry(sporth_sdelay, 2, 1), slice |-> Entry(sporth_slice, 4, 1),
   slist |-> Entry(sporth_slist, 2, 0), sget |-> Entry(sporth_sget, 2, 1),
   slick |-> Entry(sporth_slick, 1, 1),
   smoothdelay |-> Entry(sporth_smoothdelay, 5, 1),
   spa |-> Entry(sporth_spa, 1, 1), sparec |-> Entry(sporth_sparec, 2, 1),
   srand |-> Entry(sporth_srand, 1, 0), switch |-> Entry(sporth_switch, 3, 1),
   tget |-> Entry(sporth_tget, 2, 1), tset |-> Entry(sporth_tset, 3, 0),
   tblsize |-> Entry(sporth_tblsize, 1, 1),
   tbldur |-> Entry(sporth_tbldur, 1, 1),
   talias |-> Entry(sporth_talias, 3, 0),
   tabread |-> Entry(sporth_tabread, 5, 1),
   tadsr |-> Entry(sporth_tadsr, 5, 1),
   talkbox |-> Entry(sporth_talkbox, 3, 1),
   tblrec |-> Entry(sporth_tblrec, 3, 1), tdiv |-> Entry(sporth_tdiv, 3, 1),
   tenv |-> Entry(sporth_tenv, 4, 1), tenv2 |-> Entry(sporth_tenv2, 3, 1),
   tenvx |-> Entry(sporth_tenvx, 4, 1), tgate |-> Entry(sporth_tgate, 2, 1),
   thresh |-> Entry(sporth_thresh, 3, 1), tick |-> Entry(sporth_tick, 0, 1),
   timer |-> Entry(sporth_timer, 1, 1), tin |-> Entry(sporth_tin, 1, 1),
   tog |-> Entry(sporth_tog, 1, 1), tphasor |-> Entry(sporth_tphasor, 3, 1),
   trand |-> Entry(sporth_trand, 3, 1), tseg |-> Entry(sporth_tseg, 5, 1),
   tseq |-> Entry(sporth_tseq, 3, 1), get |-> Entry(sporth_get, 1, 1),
   set |-> Entry(sporth_set, 2, 0), var |-> Entry(sporth_var, 1, 0),
   varset |-> Entry(sporth_varset, 2, 0),
   vdelay |-> Entry(sporth_vdelay, 3, 1), voc |-> Entry(sporth_voc, 5, 1),
   wpkorg35 |-> Entry(sporth_wpkorg35, 4, 1),
   writecode |-> Entry(sporth_writecode, 1, 0),
   zeros |-> Entry(sporth_zeros, 2, 0),
   zitarev |-> Entry(sporth_zitarev, 13, 2), zrev |-> Entry(sporth_zrev, 5, 2)]
  @@ ("&" :> Entry(sporth_and, 2, 1)) @@ ("|" :> Entry(sporth_or, 2, 1)) @@
     ("<<" :> Entry(sporth_leftshift, 2, 1)) @@
     (">>" :> Entry(sporth_rightshift, 2, 1)) @@
     ("^" :> Entry(sporth_xor, 2, 1)) @@ ("%" :> Entry(sporth_mod, 2, 1)) @@
     ("[" :> Entry(sporth_markleft, 0, 0)) @@
     ("]" :> Entry(sporth_markright, 0, 0))

UgenSig == [u \in DOMAIN Registered |-> Registered[u].sig]
===========================================================================
