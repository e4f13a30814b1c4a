---------------------------- MODULE MCExtensions ----------------------------
(***************************************************************************)
(* The extensions whose objects live in a script.  They share the          *)
(* interpreter and nothing else, so they are put side by side: one of them *)
(* is in use in a behaviour, in whatever order a script makes its calls    *)
(* and, where the extension releases the interpreter lock, by two threads. *)
(***************************************************************************)
EXTENDS TLC

CONSTANTS
    Null, Unset, Threads, IVs, Ssls, CryptoLocks, MaxSessions, DbKeys,
    DbValues, MaxAgents, MaxRows, Parsers, Stylesheets, MaxErrors,
    MaxInclude, ChunkSize, Files, MaxDocs, Comps, Classes, Addrs, DictSize,
    MaxMade, MaxRuns, Results, Strings, MaxEntries, Table, MethodSets,
    MaxCreates, MaxParses, MaxDepth, GpgObjects, MaxKeys, MaxArgs,
    HashTypes, HmacTypes, HashKeys, MaxFed, Width, Slack, MaxResult,
    GzNames, MaxChunks, DirObjects, MaxStreams, MaxDirEntries,
    ShadowObjects, MaxSpents, Mounts, Devices, Screens, MAX_WINDOWS,
    MaxWindowIds, Parts, Filters, FormObjs, MaxComponents, MaxWindows,
    WindowObjs, ScreenObjs, MaxWindowsMade, PdfObjs, MaxPdfs, MaxPieces,
    PdfFonts, MagicObjs, MaxCookies, GeoObjs, Countries, MaxDatabases,
    WordSizes, MaxWords, StemLimit, MaxDoublings, MaxHandles, EsmtpObjs,
    PointerSize, MaxMadeSessions, McObjs, Groups, Interfaces, DefaultIf,
    MaxBinds, Regexps, Patterns, MaxCompiled, MaxLosses, FileNames,
    MaxTemps, MaxStarts

VARIABLES
    running,       \* the component in use
    crypt, stream, mcall, failed, undisclosed, mcfaults,
    ctx, ssl, sessions, destructed, interpreter, openssl_locks, scall,
    sslfaults,
    bdb, store, dbcall, untrue, dbfaults,
    agent, page, ispell, limits, search, found, mnofaults,
    xslt, xmlGenericError, xsltGenericError, xcall, losterrors, xsltfaults,
    theFDF, docs, changed, lost, answer,
    data, library, dict, dsize, handed, past, newtfaults,
    client, result, walked, kept, directory, request, olpast, ldapfaults,
    parser, parsing, contexts, botched, saxfaults,
    gpg, programrefs, gcall, leaked, broken, gpgfaults,
    mhash, fed, hashes, mhfaults,
    bzip, bzcall, bzlost, bzresult,
    gzip, gznames, gzcall, written, gzkept, gzfaults,
    dirobj, streams, nameuses, dirfaults,
    shadowobj, spent, spentuse, allspents,
    mounts, quotas, quotaanswer, quotastack,
    screens, terminal, windows, ownwindows, helplines, palette, wanted,
    filters, screenpast, screenfaults,
    newt_inited, started, stacked, formobjs, menu, runform, newtpast,
    windowfaults,
    curses_inited, stdterm, freedterms, windowobjs, rootwin, screenobjs,
    libwindows, cursmode, curspast, cursfaults,
    pdfobjs, pdfdocs, pdfanswer, pdfpast,
    magicobjs, cookies, magicanswer, magicfaults,
    geoobjs, databases, opened, geoanswer, geofaults,
    lingobjs, linghandles, lingopened, linganswer, converter, lingfaults,
    esmtps, smtpsessions, esmtpfaults,
    mcobjs, memberships, mcanswer,
    regexps, compiled, studied, patternrefs, relost, reanswer, recount,
    names, sizes, temps, sysanswer, sysfaults,
    pamhandles, pamstarts, pamanswer, pamfaults

mcrypt_vars ==
    <<crypt, stream, mcall, failed, undisclosed, mcfaults>>
openssl_vars ==
    <<ctx, ssl, sessions, destructed, interpreter, openssl_locks, scall,
      sslfaults>>
bdb_vars ==
    <<bdb, store, dbcall, untrue, dbfaults>>
mnogo_vars ==
    <<agent, page, ispell, limits, search, found, mnofaults>>
xslt_vars ==
    <<xslt, xmlGenericError, xsltGenericError, xcall, losterrors, xsltfaults>>
fdf_vars ==
    <<theFDF, docs, changed, lost, answer>>
newtforms_vars ==
    <<data, library, dict, dsize, handed, past, newtfaults>>
ldap_vars ==
    <<client, result, walked, kept, directory, request, olpast, ldapfaults>>
sax_vars ==
    <<parser, parsing, contexts, botched, saxfaults>>
gpgme_vars ==
    <<gpg, programrefs, gcall, leaked, broken, gpgfaults>>
mhash_vars ==
    <<mhash, fed, hashes, mhfaults>>
bzip2_vars ==
    <<bzip, bzcall, bzlost, bzresult>>
gzip_vars ==
    <<gzip, gznames, gzcall, written, gzkept, gzfaults>>
directory_vars ==
    <<dirobj, streams, nameuses, dirfaults>>
shadow_vars ==
    <<shadowobj, spent, spentuse, allspents>>
quota_vars ==
    <<mounts, quotas, quotaanswer, quotastack>>
screen_vars ==
    <<screens, terminal, windows, ownwindows, helplines, palette, wanted,
      filters, screenpast, screenfaults>>
window_vars ==
    <<newt_inited, started, stacked, formobjs, menu, runform, newtpast,
      windowfaults>>
curses_vars ==
    <<curses_inited, stdterm, freedterms, windowobjs, rootwin, screenobjs,
      libwindows, cursmode, curspast, cursfaults>>
pdf_vars ==
    <<pdfobjs, pdfdocs, pdfanswer, pdfpast>>
magic_vars ==
    <<magicobjs, cookies, magicanswer, magicfaults>>
geoip_vars ==
    <<geoobjs, databases, opened, geoanswer, geofaults>>
linguistics_vars ==
    <<lingobjs, linghandles, lingopened, linganswer, converter, lingfaults>>
esmtp_vars ==
    <<esmtps, smtpsessions, esmtpfaults>>
mcast_vars ==
    <<mcobjs, memberships, mcanswer>>
pcre_vars ==
    <<regexps, compiled, studied, patternrefs, relost, reanswer, recount>>
system_vars ==
    <<names, sizes, temps, sysanswer, sysfaults>>
pam_vars ==
    <<pamhandles, pamstarts, pamanswer, pamfaults>>

-----------------------------------------------------------------------------
(* A device with a group quota and a partition of a name that begins with   *)
(* its name, in two orders.                                                 *)
DevTables ==
    LET a == <<"sda", "1">>
        b == <<"sda", "1", "0">>
        Mount(name, kind, opts) == [fsname |-> name, type |-> kind, opts |-> opts]
    IN {<<Mount(b, "ext2", ("user" :> FALSE) @@ ("group" :> TRUE)),
          Mount(a, "ext2", "quota" :> TRUE)>>,
        <<Mount(a, "ext2", "group" :> FALSE), Mount(b, "ext3", "user" :> FALSE)>>}
DevNames == {<<"sda", "1">>, <<"sda", "1", "0">>, <<"sdb">>}

(* The SAX callbacks of an element and of those around it.                  *)
SomeCallbacks ==
    <<"attributeDecl", "startDocument", "endDocument", "startElement", "endElement", "comment">>
SomeMethods ==
    LET all == {SomeCallbacks[i] : i \in DOMAIN SomeCallbacks}
    IN {all, {"startDocument", "endDocument", "startElement", "endElement"}, all \ {"endElement"}}

Mc == INSTANCE Mcrypt
Ssl == INSTANCE OpenSsl
Bdb == INSTANCE BerkeleyDb
Mno == INSTANCE MnoGo
Xs == INSTANCE Xslt
Fdf == INSTANCE FdfFile
Newt == INSTANCE NewtLibrary
Ldap == INSTANCE OlLdap
Sax == INSTANCE XmlSax
Gpg == INSTANCE GpgMe
Mhash == INSTANCE MhashObject
Streams == INSTANCE Compression
Admin == INSTANCE AdminTools
Window == INSTANCE NewtWindow
Curses == INSTANCE CursesWindows
Pdf == INSTANCE PdfDocument
Lookup == INSTANCE Lookups
Ling == INSTANCE AvsLinguistics
Net == INSTANCE NetworkClients
Pcre == INSTANCE PcreRegexp

(* One component is in use; the others stay as they were loaded.            *)
Init ==
    /\ running \in {"mcrypt", "openssl", "bdb", "mnogo", "xslt", "fdf",
                      "newtforms", "ldap", "sax", "gpgme", "mhash", "bzip2",
                      "gzip", "directory", "shadow", "quota", "screen",
                      "window", "curses", "pdf", "magic", "geoip",
                      "linguistics", "esmtp", "mcast", "pcre", "system",
                      "pam"}
    /\ Mc!Init /\ Ssl!Init /\ Bdb!Init /\ Mno!Init /\ Xs!Init /\ Fdf!Init
    /\ Newt!FormsInit /\ Ldap!Init /\ Sax!Init /\ Gpg!Init /\ Mhash!Init
    /\ Streams!BzipInit /\ Streams!GzipInit /\ Admin!DirectoryInit
    /\ Admin!ShadowInit /\ Admin!QuotaInit /\ Newt!ScreenInit
    /\ Window!Init /\ Curses!Init /\ Pdf!Init /\ Lookup!MagicInit
    /\ Lookup!GeoInit /\ Ling!Init /\ Net!EsmtpInit /\ Net!McastInit /\ Pcre!Init
    /\ Admin!SystemInit /\ Admin!PamInit

McryptRuns ==
    /\ running = "mcrypt" /\ Mc!Next
    /\ UNCHANGED <<running, openssl_vars, bdb_vars, mnogo_vars, xslt_vars,
                   fdf_vars, newtforms_vars, ldap_vars, sax_vars,
                   gpgme_vars, mhash_vars, bzip2_vars, gzip_vars,
                   directory_vars, shadow_vars, quota_vars, screen_vars,
                   window_vars, curses_vars, pdf_vars, magic_vars,
                   geoip_vars, linguistics_vars, esmtp_vars, mcast_vars,
                   pcre_vars, system_vars, pam_vars>>
OpensslRuns ==
    /\ running = "openssl" /\ Ssl!Next
    /\ UNCHANGED <<running, mcrypt_vars, bdb_vars, mnogo_vars, xslt_vars,
                   fdf_vars, newtforms_vars, ldap_vars, sax_vars,
                   gpgme_vars, mhash_vars, bzip2_vars, gzip_vars,
                   directory_vars, shadow_vars, quota_vars, screen_vars,
                   window_vars, curses_vars, pdf_vars, magic_vars,
                   geoip_vars, linguistics_vars, esmtp_vars, mcast_vars,
                   pcre_vars, system_vars, pam_vars>>
BdbRuns ==
    /\ running = "bdb" /\ Bdb!Next
    /\ UNCHANGED <<running, mcrypt_vars, openssl_vars, mnogo_vars,
                   xslt_vars, fdf_vars, newtforms_vars, ldap_vars, sax_vars,
                   gpgme_vars, mhash_vars, bzip2_vars, gzip_vars,
                   directory_vars, shadow_vars, quota_vars, screen_vars,
                   window_vars, curses_vars, pdf_vars, magic_vars,
                   geoip_vars, linguistics_vars, esmtp_vars, mcast_vars,
                   pcre_vars, system_vars, pam_vars>>
MnogoRuns ==
    /\ running = "mnogo" /\ Mno!Next
    /\ UNCHANGED <<running, mcrypt_vars, openssl_vars, bdb_vars, xslt_vars,
                   fdf_vars, newtforms_vars, ldap_vars, sax_vars,
                   gpgme_vars, mhash_vars, bzip2_vars, gzip_vars,
                   directory_vars, shadow_vars, quota_vars, screen_vars,
                   window_vars, curses_vars, pdf_vars, magic_vars,
                   geoip_vars, linguistics_vars, esmtp_vars, mcast_vars,
                   pcre_vars, system_vars, pam_vars>>
XsltRuns ==
    /\ running = "xslt" /\ Xs!Next
    /\ UNCHANGED <<running, mcrypt_vars, openssl_vars, bdb_vars, mnogo_vars,
                   fdf_vars, newtforms_vars, ldap_vars, sax_vars,
                   gpgme_vars, mhash_vars, bzip2_vars, gzip_vars,
                   directory_vars, shadow_vars, quota_vars, screen_vars,
                   window_vars, curses_vars, pdf_vars, magic_vars,
                   geoip_vars, linguistics_vars, esmtp_vars, mcast_vars,
                   pcre_vars, system_vars, pam_vars>>
FdfRuns ==
    /\ running = "fdf" /\ Fdf!Next
    /\ UNCHANGED <<running, mcrypt_vars, openssl_vars, bdb_vars, mnogo_vars,
                   xslt_vars, newtforms_vars, ldap_vars, sax_vars,
                   gpgme_vars, mhash_vars, bzip2_vars, gzip_vars,
                   directory_vars, shadow_vars, quota_vars, screen_vars,
                   window_vars, curses_vars, pdf_vars, magic_vars,
                   geoip_vars, linguistics_vars, esmtp_vars, mcast_vars,
                   pcre_vars, system_vars, pam_vars>>
NewtformsRuns ==
    /\ running = "newtforms" /\ Newt!FormsNext
    /\ UNCHANGED <<running, mcrypt_vars, openssl_vars, bdb_vars, mnogo_vars,
                   xslt_vars, fdf_vars, ldap_vars, sax_vars, gpgme_vars,
                   mhash_vars, bzip2_vars, gzip_vars, directory_vars,
                   shadow_vars, quota_vars, screen_vars, window_vars,
                   curses_vars, pdf_vars, magic_vars, geoip_vars,
                   linguistics_vars, esmtp_vars, mcast_vars, pcre_vars,
                   system_vars, pam_vars>>
LdapRuns ==
    /\ running = "ldap" /\ Ldap!Next
    /\ UNCHANGED <<running, mcrypt_vars, openssl_vars, bdb_vars, mnogo_vars,
                   xslt_vars, fdf_vars, newtforms_vars, sax_vars,
                   gpgme_vars, mhash_vars, bzip2_vars, gzip_vars,
                   directory_vars, shadow_vars, quota_vars, screen_vars,
                   window_vars, curses_vars, pdf_vars, magic_vars,
                   geoip_vars, linguistics_vars, esmtp_vars, mcast_vars,
                   pcre_vars, system_vars, pam_vars>>
SaxRuns ==
    /\ running = "sax" /\ Sax!Next
    /\ UNCHANGED <<running, mcrypt_vars, openssl_vars, bdb_vars, mnogo_vars,
                   xslt_vars, fdf_vars, newtforms_vars, ldap_vars,
                   gpgme_vars, mhash_vars, bzip2_vars, gzip_vars,
                   directory_vars, shadow_vars, quota_vars, screen_vars,
                   window_vars, curses_vars, pdf_vars, magic_vars,
                   geoip_vars, linguistics_vars, esmtp_vars, mcast_vars,
                   pcre_vars, system_vars, pam_vars>>
GpgmeRuns ==
    /\ running = "gpgme" /\ Gpg!Next
    /\ UNCHANGED <<running, mcrypt_vars, openssl_vars, bdb_vars, mnogo_vars,
                   xslt_vars, fdf_vars, newtforms_vars, ldap_vars, sax_vars,
                   mhash_vars, bzip2_vars, gzip_vars, directory_vars,
                   shadow_vars, quota_vars, screen_vars, window_vars,
                   curses_vars, pdf_vars, magic_vars, geoip_vars,
                   linguistics_vars, esmtp_vars, mcast_vars, pcre_vars,
                   system_vars, pam_vars>>
MhashRuns ==
    /\ running = "mhash" /\ Mhash!Next
    /\ UNCHANGED <<running, mcrypt_vars, openssl_vars, bdb_vars, mnogo_vars,
                   xslt_vars, fdf_vars, newtforms_vars, ldap_vars, sax_vars,
                   gpgme_vars, bzip2_vars, gzip_vars, directory_vars,
                   shadow_vars, quota_vars, screen_vars, window_vars,
                   curses_vars, pdf_vars, magic_vars, geoip_vars,
                   linguistics_vars, esmtp_vars, mcast_vars, pcre_vars,
                   system_vars, pam_vars>>
Bzip2Runs ==
    /\ running = "bzip2" /\ Streams!BzipNext
    /\ UNCHANGED <<running, mcrypt_vars, openssl_vars, bdb_vars, mnogo_vars,
                   xslt_vars, fdf_vars, newtforms_vars, ldap_vars, sax_vars,
                   gpgme_vars, mhash_vars, gzip_vars, directory_vars,
                   shadow_vars, quota_vars, screen_vars, window_vars,
                   curses_vars, pdf_vars, magic_vars, geoip_vars,
                   linguistics_vars, esmtp_vars, mcast_vars, pcre_vars,
                   system_vars, pam_vars>>
GzipRuns ==
    /\ running = "gzip" /\ Streams!GzipNext
    /\ UNCHANGED <<running, mcrypt_vars, openssl_vars, bdb_vars, mnogo_vars,
                   xslt_vars, fdf_vars, newtforms_vars, ldap_vars, sax_vars,
                   gpgme_vars, mhash_vars, bzip2_vars, directory_vars,
                   shadow_vars, quota_vars, screen_vars, window_vars,
                   curses_vars, pdf_vars, magic_vars, geoip_vars,
                   linguistics_vars, esmtp_vars, mcast_vars, pcre_vars,
                   system_vars, pam_vars>>
DirectoryRuns ==
    /\ running = "directory" /\ Admin!DirectoryNext
    /\ UNCHANGED <<running, mcrypt_vars, openssl_vars, bdb_vars, mnogo_vars,
                   xslt_vars, fdf_vars, newtforms_vars, ldap_vars, sax_vars,
                   gpgme_vars, mhash_vars, bzip2_vars, gzip_vars,
                   shadow_vars, quota_vars, screen_vars, window_vars,
                   curses_vars, pdf_vars, magic_vars, geoip_vars,
                   linguistics_vars, esmtp_vars, mcast_vars, pcre_vars,
                   system_vars, pam_vars>>
ShadowRuns ==
    /\ running = "shadow" /\ Admin!ShadowNext
    /\ UNCHANGED <<running, mcrypt_vars, openssl_vars, bdb_vars, mnogo_vars,
                   xslt_vars, fdf_vars, newtforms_vars, ldap_vars, sax_vars,
                   gpgme_vars, mhash_vars, bzip2_vars, gzip_vars,
                   directory_vars, quota_vars, screen_vars, window_vars,
                   curses_vars, pdf_vars, magic_vars, geoip_vars,
                   linguistics_vars, esmtp_vars, mcast_vars, pcre_vars,
                   system_vars, pam_vars>>
QuotaRuns ==
    /\ running = "quota" /\ Admin!QuotaNext
    /\ UNCHANGED <<running, mcrypt_vars, openssl_vars, bdb_vars, mnogo_vars,
                   xslt_vars, fdf_vars, newtforms_vars, ldap_vars, sax_vars,
                   gpgme_vars, mhash_vars, bzip2_vars, gzip_vars,
                   directory_vars, shadow_vars, screen_vars, window_vars,
                   curses_vars, pdf_vars, magic_vars, geoip_vars,
                   linguistics_vars, esmtp_vars, mcast_vars, pcre_vars,
                   system_vars, pam_vars>>
ScreenRuns ==
    /\ running = "screen" /\ Newt!ScreenNext
    /\ UNCHANGED <<running, mcrypt_vars, openssl_vars, bdb_vars, mnogo_vars,
                   xslt_vars, fdf_vars, newtforms_vars, ldap_vars, sax_vars,
                   gpgme_vars, mhash_vars, bzip2_vars, gzip_vars,
                   directory_vars, shadow_vars, quota_vars, window_vars,
                   curses_vars, pdf_vars, magic_vars, geoip_vars,
                   linguistics_vars, esmtp_vars, mcast_vars, pcre_vars,
                   system_vars, pam_vars>>
WindowRuns ==
    /\ running = "window" /\ Window!Next
    /\ UNCHANGED <<running, mcrypt_vars, openssl_vars, bdb_vars, mnogo_vars,
                   xslt_vars, fdf_vars, newtforms_vars, ldap_vars, sax_vars,
                   gpgme_vars, mhash_vars, bzip2_vars, gzip_vars,
                   directory_vars, shadow_vars, quota_vars, screen_vars,
                   curses_vars, pdf_vars, magic_vars, geoip_vars,
                   linguistics_vars, esmtp_vars, mcast_vars, pcre_vars,
                   system_vars, pam_vars>>
CursesRuns ==
    /\ running = "curses" /\ Curses!Next
    /\ UNCHANGED <<running, mcrypt_vars, openssl_vars, bdb_vars, mnogo_vars,
                   xslt_vars, fdf_vars, newtforms_vars, ldap_vars, sax_vars,
                   gpgme_vars, mhash_vars, bzip2_vars, gzip_vars,
                   directory_vars, shadow_vars, quota_vars, screen_vars,
                   window_vars, pdf_vars, magic_vars, geoip_vars,
                   linguistics_vars, esmtp_vars, mcast_vars, pcre_vars,
                   system_vars, pam_vars>>
PdfRuns ==
    /\ running = "pdf" /\ Pdf!Next
    /\ UNCHANGED <<running, mcrypt_vars, openssl_vars, bdb_vars, mnogo_vars,
                   xslt_vars, fdf_vars, newtforms_vars, ldap_vars, sax_vars,
                   gpgme_vars, mhash_vars, bzip2_vars, gzip_vars,
                   directory_vars, shadow_vars, quota_vars, screen_vars,
                   window_vars, curses_vars, magic_vars, geoip_vars,
                   linguistics_vars, esmtp_vars, mcast_vars, pcre_vars,
                   system_vars, pam_vars>>
MagicRuns ==
    /\ running = "magic" /\ Lookup!MagicNext
    /\ UNCHANGED <<running, mcrypt_vars, openssl_vars, bdb_vars, mnogo_vars,
                   xslt_vars, fdf_vars, newtforms_vars, ldap_vars, sax_vars,
                   gpgme_vars, mhash_vars, bzip2_vars, gzip_vars,
                   directory_vars, shadow_vars, quota_vars, screen_vars,
                   window_vars, curses_vars, pdf_vars, geoip_vars,
                   linguistics_vars, esmtp_vars, mcast_vars, pcre_vars,
                   system_vars, pam_vars>>
GeoipRuns ==
    /\ running = "geoip" /\ Lookup!GeoNext
    /\ UNCHANGED <<running, mcrypt_vars, openssl_vars, bdb_vars, mnogo_vars,
                   xslt_vars, fdf_vars, newtforms_vars, ldap_vars, sax_vars,
                   gpgme_vars, mhash_vars, bzip2_vars, gzip_vars,
                   directory_vars, shadow_vars, quota_vars, screen_vars,
                   window_vars, curses_vars, pdf_vars, magic_vars,
                   linguistics_vars, esmtp_vars, mcast_vars, pcre_vars,
                   system_vars, pam_vars>>
LinguisticsRuns ==
    /\ running = "linguistics" /\ Ling!Next
    /\ UNCHANGED <<running, mcrypt_vars, openssl_vars, bdb_vars, mnogo_vars,
                   xslt_vars, fdf_vars, newtforms_vars, ldap_vars, sax_vars,
                   gpgme_vars, mhash_vars, bzip2_vars, gzip_vars,
                   directory_vars, shadow_vars, quota_vars, screen_vars,
                   window_vars, curses_vars, pdf_vars, magic_vars,
                   geoip_vars, esmtp_vars, mcast_vars, pcre_vars,
                   system_vars, pam_vars>>
EsmtpRuns ==
    /\ running = "esmtp" /\ Net!EsmtpNext
    /\ UNCHANGED <<running, mcrypt_vars, openssl_vars, bdb_vars, mnogo_vars,
                   xslt_vars, fdf_vars, newtforms_vars, ldap_vars, sax_vars,
                   gpgme_vars, mhash_vars, bzip2_vars, gzip_vars,
                   directory_vars, shadow_vars, quota_vars, screen_vars,
                   window_vars, curses_vars, pdf_vars, magic_vars,
                   geoip_vars, linguistics_vars, mcast_vars, pcre_vars,
                   system_vars, pam_vars>>
McastRuns ==
    /\ running = "mcast" /\ Net!McastNext
    /\ UNCHANGED <<running, mcrypt_vars, openssl_vars, bdb_vars, mnogo_vars,
                   xslt_vars, fdf_vars, newtforms_vars, ldap_vars, sax_vars,
                   gpgme_vars, mhash_vars, bzip2_vars, gzip_vars,
                   directory_vars, shadow_vars, quota_vars, screen_vars,
                   window_vars, curses_vars, pdf_vars, magic_vars,
                   geoip_vars, linguistics_vars, esmtp_vars, pcre_vars,
                   system_vars, pam_vars>>
PcreRuns ==
    /\ running = "pcre" /\ Pcre!Next
    /\ UNCHANGED <<running, mcrypt_vars, openssl_vars, bdb_vars, mnogo_vars,
                   xslt_vars, fdf_vars, newtforms_vars, ldap_vars, sax_vars,
                   gpgme_vars, mhash_vars, bzip2_vars, gzip_vars,
                   directory_vars, shadow_vars, quota_vars, screen_vars,
                   window_vars, curses_vars, pdf_vars, magic_vars,
                   geoip_vars, linguistics_vars, esmtp_vars, mcast_vars,
                   system_vars, pam_vars>>
SystemRuns ==
    /\ running = "system" /\ Admin!SystemNext
    /\ UNCHANGED <<running, mcrypt_vars, openssl_vars, bdb_vars, mnogo_vars,
                   xslt_vars, fdf_vars, newtforms_vars, ldap_vars, sax_vars,
                   gpgme_vars, mhash_vars, bzip2_vars, gzip_vars,
                   directory_vars, shadow_vars, quota_vars, screen_vars,
                   window_vars, curses_vars, pdf_vars, magic_vars,
                   geoip_vars, linguistics_vars, esmtp_vars, mcast_vars,
                   pcre_vars, pam_vars>>
PamRuns ==
    /\ running = "pam" /\ Admin!PamNext
    /\ UNCHANGED <<running, mcrypt_vars, openssl_vars, bdb_vars, mnogo_vars,
                   xslt_vars, fdf_vars, newtforms_vars, ldap_vars, sax_vars,
                   gpgme_vars, mhash_vars, bzip2_vars, gzip_vars,
                   directory_vars, shadow_vars, quota_vars, screen_vars,
                   window_vars, curses_vars, pdf_vars, magic_vars,
                   geoip_vars, linguistics_vars, esmtp_vars, mcast_vars,
                   pcre_vars, system_vars>>

Next ==
    \/ McryptRuns \/ OpensslRuns \/ BdbRuns \/ MnogoRuns \/ XsltRuns
    \/ FdfRuns \/ NewtformsRuns \/ LdapRuns \/ SaxRuns \/ GpgmeRuns
    \/ MhashRuns \/ Bzip2Runs \/ GzipRuns \/ DirectoryRuns \/ ShadowRuns
    \/ QuotaRuns \/ ScreenRuns \/ WindowRuns \/ CursesRuns \/ PdfRuns
    \/ MagicRuns \/ GeoipRuns \/ LinguisticsRuns \/ EsmtpRuns \/ McastRuns
    \/ PcreRuns \/ SystemRuns \/ PamRuns

allvars == <<running, mcrypt_vars, openssl_vars, bdb_vars, mnogo_vars,
             xslt_vars, fdf_vars, newtforms_vars, ldap_vars, sax_vars,
             gpgme_vars, mhash_vars, bzip2_vars, gzip_vars, directory_vars,
             shadow_vars, quota_vars, screen_vars, window_vars, curses_vars,
             pdf_vars, magic_vars, geoip_vars, linguistics_vars, esmtp_vars,
             mcast_vars, pcre_vars, system_vars, pam_vars>>

Spec == Init /\ [][Next]_allvars

(* Threads are interchangeable.                                             *)
Symmetry == Permutations(Threads)

-----------------------------------------------------------------------------
(* The state of the component in use is well formed.                        *)
TypeOK ==
    /\ running = "mcrypt" => Mc!TypeOK
    /\ running = "openssl" => Ssl!TypeOK
    /\ running = "bdb" => Bdb!TypeOK
    /\ running = "mnogo" => Mno!TypeOK
    /\ running = "xslt" => Xs!TypeOK
    /\ running = "fdf" => Fdf!TypeOK
    /\ running = "newtforms" => Newt!FormsTypeOK
    /\ running = "ldap" => Ldap!TypeOK
    /\ running = "sax" => Sax!TypeOK
    /\ running = "gpgme" => Gpg!TypeOK
    /\ running = "mhash" => Mhash!TypeOK
    /\ running = "bzip2" => Streams!BzipTypeOK
    /\ running = "gzip" => Streams!GzipTypeOK
    /\ running = "directory" => Admin!DirectoryTypeOK
    /\ running = "shadow" => Admin!ShadowTypeOK
    /\ running = "quota" => Admin!QuotaTypeOK
    /\ running = "screen" => Newt!ScreenTypeOK
    /\ running = "window" => Window!TypeOK
    /\ running = "curses" => Curses!TypeOK
    /\ running = "pdf" => Pdf!TypeOK
    /\ running = "magic" => Lookup!MagicTypeOK
    /\ running = "geoip" => Lookup!GeoTypeOK
    /\ running = "linguistics" => Ling!TypeOK
    /\ running = "esmtp" => Net!EsmtpTypeOK
    /\ running = "mcast" => Net!McastTypeOK
    /\ running = "pcre" => Pcre!TypeOK
    /\ running = "system" => Admin!SystemTypeOK
    /\ running = "pam" => Admin!PamTypeOK


(* What a script is told is true of what it asked: a put or delete that     *)
(* says it changed the database did, rows and entries come one after        *)
(* another, the flag of the cache means a cache, a lookup is of its         *)
(* argument, a socket is in the groups it was told, and an expression is    *)
(* of the last pattern.                                                     *)
AnswersAreOfTheQuestion ==
    /\ running = "bdb" => Bdb!AnswersAreTrue
    /\ running = "mnogo" => Mno!RowsComeInOrder
    /\ running = "ldap" =>
          /\ Ldap!CachingMeansCache
          /\ Ldap!WalkVisitsEveryEntry
    /\ running = "geoip" => Lookup!AnswersAreOfTheArgument
    /\ running = "mcast" =>
          /\ Net!MembershipFollowsCalls
          /\ Net!LeaveFailsElsewhere
    /\ running = "pcre" => Pcre!LastPatternOrNone


(* What the library holds open belongs to one object, which never refers    *)
(* to what is closed: documents of forms, also when an embedding is         *)
(* refused, connections, directory streams, cookies, databases, handles of  *)
(* linguistics and sessions of mail. An enumeration of fields is whole or   *)
(* fails.                                                                   *)
LibraryObjectsHaveOwners ==
    /\ running = "fdf" =>
          /\ Fdf!FileOwnsDocument
          /\ Fdf!OpenDocumentsInReach
          /\ Fdf!EnumIsAllOrNothing
    /\ running = "ldap" => Ldap!ClientAsksBeforeUse
    /\ running = "directory" => Admin!OpenStreamsAreOwned
    /\ running = "magic" => Lookup!CookiesAccounted /\ Lookup!CookiesUsedOpen
    /\ running = "geoip" => Lookup!DatabasesAccounted
    /\ running = "linguistics" => Ling!HandlesOfObjects
    /\ running = "esmtp" => Net!OneSessionIsSafe /\ Net!SessionsOfTables



(* What comes out is of all that went in, in order and of the right         *)
(* length: a digest of the data fed since the reset, a compressed string,   *)
(* which needs a growing buffer, a compressed file, a document, the words   *)
(* of a question.                                                           *)
OutputIsOfItsInput ==
    /\ running = "mhash" =>
          /\ Mhash!DigestIsOfWhatWasFed
          /\ Mhash!ResultFitsType
          /\ Mhash!FedContextsExist
    /\ running = "bzip2" => Streams!RetriesGrow /\ Streams!ResultIsWhole
    /\ running = "gzip" => Streams!OutputIsWhole
    /\ running = "pdf" => Pdf!GeneratedIsWhole
    /\ running = "linguistics" => Ling!EveryWordReturned


(* Entries of a directory or of the shadow file come each once and in       *)
(* order, also with several objects at one place of the process; a quota    *)
(* that was switched without an error is switched for all that was asked,   *)
(* from the files of its own device; a temporary file is truncated and no   *)
(* other.                                                                   *)
SystemFilesAreReadRight ==
    /\ running = "directory" => Admin!FieldsAreOfAnEntry
    /\ running = "shadow" =>
          /\ Admin!EntriesComeInOrder
          /\ Admin!AllSpentsAreAll
    /\ running = "quota" =>
          /\ Admin!NoErrorMeansAll
          /\ Admin!FilesAreOfTheirDevice
          /\ Admin!GetAnswersAPair
    /\ running = "system" => Admin!TruncatesItsOwn
=============================================================================
