SPECIFICATION Spec
CONSTANTS
  html = html
  favicon = favicon
  manifest = manifest
  script1 = script1
  script2 = script2
  appHtml = html
  PublicFiles <- MCPublicFiles
  Assets <- MCAssets
  LastBuild = 2
CHECK_DEADLOCK FALSE
INVARIANTS
  NoMixture
  SuccessIsComplete
  
  TemplateNeverDeployed
